---------------------------- MODULE Spec2Model ----------------------------
(***************************************************************************)
(* Model of the ECG serial acquisition layer:                              *)
(*   src/src/ecg/serial/hardware_commands.py  (HardwareCommandHandler)     *)
(*   src/src/ecg/serial/serial_reader.py      (SerialStreamReader)         *)
(*                                                                         *)
(* Bytes are naturals 0..255, byte strings are sequences of bytes.  Python *)
(* indices are 0-based: At(s, k) is s[k].  Time is counted in ticks of     *)
(* 10 ms, the length of the sleep of every polling loop.                   *)
(***************************************************************************)
EXTENDS Integers, Sequences, FiniteSets, TLC

(***************************************************************************)
(* Protocol constants (hardware_commands.py:27-42)                         *)
(***************************************************************************)
START_BYTE == 232
END_BYTE == 142
PACKET_LENGTH == 17
FRAME_LEN == 22
ACK_CODE == 33
DATA_CODE_VERSION == 36
ECG_STREAM == 32
OPCODE_START == 16
OPCODE_STOP == 17
OPCODE_VERSION == 20
OPCODE_CLOSE == 21

\* time.sleep(0.01) is one tick, so one second is 100 ticks
TICKS_PER_SEC == 100
\* RESPONSE_TIMEOUT = 2.0 seconds
RESPONSE_TIMEOUT == 2 * TICKS_PER_SEC
\* _read_packet(timeout=0.5) as called by _wait_for_ack and _wait_for_data
SLICE_TIMEOUT == TICKS_PER_SEC \div 2
\* _wait_for_ack / _wait_for_data (timeout: float = 3.0)
WAIT_TIMEOUT == 3 * TICKS_PER_SEC
\* time.sleep(0.1) after a confirmed STOP
STOP_SETTLE == TICKS_PER_SEC \div 10
\* scan_and_detect_port(timeout: float = 0.1)
SCAN_TIMEOUT == TICKS_PER_SEC \div 10

(***************************************************************************)
(* Bounds of the model                                                     *)
(***************************************************************************)
\* longest script of device output offered to one command request
MaxEvents == 2
\* number of command requests issued on one handler
MaxRequests == 2
\* a silence of the device, in ticks, longer than one read slice
SilenceTicks == 60
\* the delay, in ticks, after which the device answers a command
ReplyTicks == 40
\* most candidate endpoints a port scan is given
MaxPorts == 3
\* number of read_packets calls on one reader
MaxReads == 2
\* number of start() calls on one reader
MaxStarts == 2
\* how far the clock of the reader runs, in ticks
MaxTime == 1
\* number of read_packets calls on a reader that is polled for a long time
MaxSoakReads == 22
\* number of frames one handler builds
MaxEncodes == 65
\* number of read_packets calls on a reader whose transport cuts frames
MaxResyncReads == 2
\* number of read_packets calls on a reader whose transport delivers garbage
MaxGarbageReads == 4
\* number of read_packets calls on a reader whose console cannot encode
MaxConsoleReads == 2

(***************************************************************************)
(* Byte-string helpers                                                     *)
(***************************************************************************)
At(s, k) == s[k + 1]

Slice(s, lo, hi) == SubSeq(s, lo + 1, hi)

Zeros(n) == [i \in 1..n |-> 0]

Min(a, b) == IF a <= b THEN a ELSE b

Max(a, b) == IF a >= b THEN a ELSE b

\* bytes.find(b): index of the first occurrence, -1 when there is none
Find(s, b) ==
  IF \E i \in 1..Len(s) : s[i] = b
  THEN (CHOOSE i \in 1..Len(s) : s[i] = b /\ \A j \in 1..(i - 1) : s[j] # b) - 1
  ELSE -1

\* a 22-byte frame as the device or the host lays it out
Frame(ctr, code, payload) ==
  <<START_BYTE, ctr, PACKET_LENGTH, code, 0>> \o payload \o <<END_BYTE>>

\* a 16-byte payload whose first byte is p0 and whose other bytes are zero
Payload0(p0) == <<p0>> \o Zeros(15)

(***************************************************************************)
(* Long byte strings.  The reader's buffer and the chunks the transport    *)
(* hands it are held run-length encoded: a sequence of runs [b, n], n > 0  *)
(* copies of byte b, no two neighbouring runs of the same byte.            *)
(***************************************************************************)
Run(b, n) == [b |-> b, n |-> n]

RECURSIVE RLen(_)
RLen(r) == IF r = <<>> THEN 0 ELSE Head(r).n + RLen(Tail(r))

\* bytearray.find(byte): offset of the first occurrence, -1 when none
RECURSIVE RFindFrom(_, _, _)
RFindFrom(r, b, off) ==
  IF r = <<>> THEN -1
  ELSE IF Head(r).b = b THEN off
  ELSE RFindFrom(Tail(r), b, off + Head(r).n)

RFind(r, b) == RFindFrom(r, b, 0)

\* r[k:]
RECURSIVE RDrop(_, _)
RDrop(r, k) ==
  IF k <= 0 \/ r = <<>> THEN r
  ELSE IF Head(r).n <= k THEN RDrop(Tail(r), k - Head(r).n)
  ELSE <<Run(Head(r).b, Head(r).n - k)>> \o Tail(r)

\* r[:k]
RECURSIVE RTake(_, _)
RTake(r, k) ==
  IF k <= 0 \/ r = <<>> THEN <<>>
  ELSE IF Head(r).n <= k THEN <<Head(r)>> \o RTake(Tail(r), k - Head(r).n)
  ELSE <<Run(Head(r).b, k)>>

\* r1 + r2
RCat(r1, r2) ==
  IF r1 = <<>> THEN r2
  ELSE IF r2 = <<>> THEN r1
  ELSE IF r1[Len(r1)].b = Head(r2).b
  THEN SubSeq(r1, 1, Len(r1) - 1)
       \o <<Run(Head(r2).b, r1[Len(r1)].n + Head(r2).n)>> \o Tail(r2)
  ELSE r1 \o r2

\* the plain byte string of a short run-length encoded one
RECURSIVE RExpand(_)
RExpand(r) ==
  IF r = <<>> THEN <<>> ELSE [i \in 1..Head(r).n |-> Head(r).b] \o RExpand(Tail(r))

\* the run-length encoding of a plain byte string
RECURSIVE REncode(_)
REncode(q) ==
  IF q = <<>> THEN <<>> ELSE RCat(<<Run(Head(q), 1)>>, REncode(Tail(q)))

(***************************************************************************)
(* HardwareCommandHandler: frame building and parsing                      *)
(***************************************************************************)
NoneResp == [type |-> "none"]

\* a counter that is never wrapped
NextCounterNoWrap(c) == c + 1

\* self.counter = (self.counter + 1) & 0x3F
NextCounter(c) == (c + 1) % 64

\* a builder that writes the frame length where the payload length belongs
BuildWithFrameLength(ctr, opcode) ==
  [i \in 1..FRAME_LEN |->
     CASE i = 1 -> START_BYTE
       [] i = 2 -> ctr
       [] i = 3 -> FRAME_LEN
       [] i = 4 -> opcode
       [] i = FRAME_LEN -> END_BYTE
       [] OTHER -> 0]

\* _build_command_packet: the packet carries the counter before its increment
BuildCommandPacket(ctr, opcode) ==
  [i \in 1..FRAME_LEN |->
     CASE i = 1 -> START_BYTE
       [] i = 2 -> ctr
       [] i = 3 -> PACKET_LENGTH
       [] i = 4 -> opcode
       [] i = FRAME_LEN -> END_BYTE
       [] OTHER -> 0]

\* _build_simple_packet(counter, opcode)
BuildSimplePacket(ctr, opcode) ==
  [i \in 1..FRAME_LEN |->
     CASE i = 1 -> START_BYTE
       [] i = 2 -> ctr % 256
       [] i = 3 -> 17
       [] i = 4 -> opcode
       [] i = FRAME_LEN -> END_BYTE
       [] OTHER -> 0]

\* a parser that knows of Start and Stop only
StartStopOpcodes == {OPCODE_START, OPCODE_STOP}

KnownOpcodes == {OPCODE_START, OPCODE_STOP, OPCODE_VERSION, OPCODE_CLOSE}

\* a parser that checks the length of a packet and not its markers
ParseLengthOnly(packet) ==
  IF Len(packet) # 22
  THEN [type |-> "invalid"]
  ELSE [type |-> "unknown", counter |-> At(packet, 1), length |-> At(packet, 2),
        code |-> At(packet, 3), checksum |-> At(packet, 4),
        data |-> Slice(packet, 5, 21), opcode |-> At(packet, 3)]

\* _parse_response
ParseResponse(packet) ==
  IF Len(packet) # 22 \/ At(packet, 0) # START_BYTE \/ At(packet, 21) # END_BYTE
  THEN [type |-> "invalid"]
  ELSE LET base == [counter |-> At(packet, 1), length |-> At(packet, 2),
                    code |-> At(packet, 3), checksum |-> At(packet, 4),
                    data |-> Slice(packet, 5, 21)]
       IN  IF At(packet, 3) = ACK_CODE
           THEN base @@ [type |-> "ack", opcode |-> At(packet, 5)]
           ELSE IF At(packet, 3) = DATA_CODE_VERSION
           THEN base @@ [type |-> "version_data"]
           ELSE IF At(packet, 3) = 32
           THEN IF At(packet, 5) \in KnownOpcodes
                THEN base @@ [type |-> "ack", opcode |-> At(packet, 5)]
                ELSE base @@ [type |-> "data"]
           ELSE base @@ [type |-> "unknown", opcode |-> At(packet, 3)]

\* response.get("opcode")
GetOpcode(response) ==
  IF "opcode" \in DOMAIN response THEN response.opcode ELSE -1

(***************************************************************************)
(* The transport as a command request sees it.  A script is the device's   *)
(* output after the request begins: a sequence of events, each a byte      *)
(* string that arrives dt ticks after the event before it.  The first      *)
(* event arrives at tick 1 + dt.  fault names what the transport refuses:  *)
(* "write" (every write raises), "read" (every read, in_waiting and        *)
(* reset_input_buffer raises), or "none".                                  *)
(***************************************************************************)
Faults == {"none", "write", "read"}

RECURSIVE ArrivalTime(_, _)
ArrivalTime(script, i) ==
  IF i = 0 THEN 1 ELSE ArrivalTime(script, i - 1) + script[i].dt

\* the bytes of the script with their arrival times, in arrival order
RECURSIVE TimedFrom(_, _)
TimedFrom(script, i) ==
  IF i > Len(script) THEN <<>>
  ELSE [k \in 1..Len(script[i].data) |->
           [t |-> ArrivalTime(script, i), b |-> script[i].data[k]]]
       \o TimedFrom(script, i + 1)

Timed(script) == TimedFrom(script, 1)

\* the bytes that have arrived strictly before tick `limit`
RECURSIVE BytesBefore(_, _)
BytesBefore(tb, limit) ==
  IF tb = <<>> \/ Head(tb).t >= limit THEN <<>>
  ELSE <<Head(tb).b>> \o BytesBefore(Tail(tb), limit)

(***************************************************************************)
(* HardwareCommandHandler: Start, Stop and Close requests                  *)
(***************************************************************************)
\* _read_response: every poll in which bytes are waiting appends them to the
\* local buffer and looks at the first start byte of the whole buffer
RECURSIVE ReadResponseFrom(_, _, _, _)
ReadResponseFrom(script, i, buffer, timeout) ==
  IF i > Len(script) \/ ArrivalTime(script, i) >= timeout
  THEN [kind |-> "none"]
  ELSE LET nb == buffer \o script[i].data
           start_idx == Find(nb, START_BYTE)
       IN  IF /\ script[i].data # <<>>
              /\ start_idx >= 0
              /\ Len(nb) >= start_idx + 22
              /\ At(nb, start_idx + 21) = END_BYTE
           THEN [kind |-> "packet", packet |-> Slice(nb, start_idx, start_idx + 22)]
           ELSE ReadResponseFrom(script, i + 1, nb, timeout)

ReadResponse(script, timeout, fault) ==
  IF timeout <= 0 THEN [kind |-> "none"]
  ELSE IF fault = "read" THEN [kind |-> "raise", exc |-> "SerialException"]
  ELSE ReadResponseFrom(script, 1, <<>>, timeout)

\* what a request hands back: the returned tuple, the exception that left the
\* request (if any), the frames it wrote, the handler's counter afterwards and
\* the steps the request went through
Outcome(ok, resp, version, escaped, wrote, ctr, steps) ==
  [ok |-> ok, resp |-> resp, version |-> version, escaped |-> escaped,
   wrote |-> wrote, counter |-> ctr, steps |-> steps]

\* send_start_command after _read_response returned (or raised)
CommandResponse(opcode, cmd_packet, ctr, rp) ==
  IF rp.kind = "raise"
  THEN [raised |-> rp.exc, wrote |-> <<cmd_packet>>, counter |-> ctr]
  ELSE IF rp.kind = "packet"
  THEN [raised |-> "none", wrote |-> <<cmd_packet>>, counter |-> ctr,
        ok |-> (ParseResponse(rp.packet).type = "ack"
                /\ GetOpcode(ParseResponse(rp.packet)) = opcode),
        resp |-> ParseResponse(rp.packet)]
  ELSE [raised |-> "none", wrote |-> <<cmd_packet>>, counter |-> ctr,
        ok |-> FALSE, resp |-> NoneResp]

\* the body of the try block of send_start_command / send_stop_command /
\* send_close_command: the result, or the exception raised inside it
CommandBody(opcode, timeout, ctr, script, fault) ==
  IF fault = "write"
  THEN [raised |-> "SerialException", wrote |-> <<>>, counter |-> NextCounter(ctr)]
  ELSE CommandResponse(opcode, BuildCommandPacket(ctr, opcode), NextCounter(ctr),
                       ReadResponse(script, timeout, fault))

CommandUncaught(b) ==
  IF b.raised # "none"
  THEN Outcome(FALSE, NoneResp, NoneResp, b.raised, b.wrote, b.counter, <<>>)
  ELSE Outcome(b.ok, b.resp, NoneResp, "none", b.wrote, b.counter, <<>>)

\* the handler of send_start_command / send_stop_command / send_close_command:
\* "except Exception" turns every exception into (False, None)
CommandHandler(b) ==
  IF b.raised # "none"
  THEN Outcome(FALSE, NoneResp, NoneResp, "none", b.wrote, b.counter, <<>>)
  ELSE Outcome(b.ok, b.resp, NoneResp, "none", b.wrote, b.counter, <<>>)

\* send_start_command / send_stop_command / send_close_command
SendCommand(opcode, timeout, ctr, script, fault) ==
  CommandHandler(CommandBody(opcode, timeout, ctr, script, fault))

(***************************************************************************)
(* HardwareCommandHandler: the VersionQuery request                        *)
(***************************************************************************)
\* _read_packet: one byte per poll, a sleep of one tick after every poll.
\* tb is the timed input, pos the next unread byte, buffer the local buffer.
RECURSIVE ReadPacket(_, _, _, _, _)
ReadPacket(tb, now, pos, buffer, deadline) ==
  IF now >= deadline
  THEN [kind |-> "raise", exc |-> "TimeoutError", now |-> now, pos |-> pos]
  ELSE IF pos > Len(tb)
  THEN [kind |-> "raise", exc |-> "TimeoutError", now |-> deadline, pos |-> pos]
  ELSE IF tb[pos].t > now
  THEN ReadPacket(tb, Min(tb[pos].t, deadline), pos, buffer, deadline)
  ELSE LET b == tb[pos].b
           nb == IF buffer = <<>>
                 THEN (IF b = START_BYTE THEN <<b>> ELSE <<>>)
                 ELSE Append(buffer, b)
       IN  IF buffer # <<>> /\ Len(nb) = FRAME_LEN
           THEN IF nb[Len(nb)] = END_BYTE
                THEN [kind |-> "frame", frame |-> nb, now |-> now, pos |-> pos + 1]
                ELSE ReadPacket(tb, now + 1, pos + 1, <<>>, deadline)
           ELSE ReadPacket(tb, now + 1, pos + 1, nb, deadline)

\* _wait_for_ack(expected_opcode, timeout=3.0), entered at tick t0: the loop
\* head, and what the loop does with the result r of _read_packet
RECURSIVE WaitForAckLoop(_, _, _, _, _)
RECURSIVE AckFilter(_, _, _, _)
AckFilter(tb, t0, expected_opcode, r) ==
  IF r.kind = "raise" THEN r
  ELSE IF At(r.frame, 3) = ECG_STREAM
       THEN WaitForAckLoop(tb, t0, r.now, r.pos, expected_opcode)
  ELSE IF At(r.frame, 3) # ACK_CODE
       THEN WaitForAckLoop(tb, t0, r.now, r.pos, expected_opcode)
  ELSE IF At(r.frame, 5) # expected_opcode
       THEN WaitForAckLoop(tb, t0, r.now, r.pos, expected_opcode)
  ELSE r

WaitForAckLoop(tb, t0, now, pos, expected_opcode) ==
  IF now - t0 >= WAIT_TIMEOUT
  THEN [kind |-> "raise", exc |-> "TimeoutError", now |-> now, pos |-> pos]
  ELSE AckFilter(tb, t0, expected_opcode,
                 ReadPacket(tb, now, pos, <<>>, now + SLICE_TIMEOUT))

WaitForAck(tb, now, pos, expected_opcode, fault) ==
  IF fault = "read"
  THEN [kind |-> "raise", exc |-> "SerialException", now |-> now, pos |-> pos]
  ELSE WaitForAckLoop(tb, now, now, pos, expected_opcode)

\* _wait_for_data(timeout=3.0), entered at tick t0
RECURSIVE WaitForDataLoop(_, _, _, _)
RECURSIVE DataFilter(_, _, _)
DataFilter(tb, t0, r) ==
  IF r.kind = "raise" THEN r
  ELSE IF At(r.frame, 3) = ECG_STREAM
       THEN WaitForDataLoop(tb, t0, r.now, r.pos)
  ELSE IF At(r.frame, 3) = DATA_CODE_VERSION
       THEN r
  ELSE WaitForDataLoop(tb, t0, r.now, r.pos)

WaitForDataLoop(tb, t0, now, pos) ==
  IF now - t0 >= WAIT_TIMEOUT
  THEN [kind |-> "raise", exc |-> "TimeoutError", now |-> now, pos |-> pos]
  ELSE DataFilter(tb, t0, ReadPacket(tb, now, pos, <<>>, now + SLICE_TIMEOUT))

WaitForData(tb, now, pos, fault) ==
  IF fault = "read"
  THEN [kind |-> "raise", exc |-> "SerialException", now |-> now, pos |-> pos]
  ELSE WaitForDataLoop(tb, now, now, pos)

\* ser.reset_input_buffer(): every byte that has arrived is dropped
RECURSIVE ResetInputBuffer(_, _, _)
ResetInputBuffer(tb, now, pos) ==
  IF pos > Len(tb) \/ tb[pos].t > now THEN pos
  ELSE ResetInputBuffer(tb, now, pos + 1)

\* str.rstrip(chars) and str.strip() on a string held as its bytes
RECURSIVE RStrip(_, _)
RStrip(s, chars) ==
  IF s # <<>> /\ s[Len(s)] \in chars THEN RStrip(SubSeq(s, 1, Len(s) - 1), chars) ELSE s

RECURSIVE LStrip(_, _)
LStrip(s, chars) ==
  IF s # <<>> /\ Head(s) \in chars THEN LStrip(Tail(s), chars) ELSE s

\* the ASCII characters for which str.isspace() holds
AsciiSpace == {9, 10, 11, 12, 13, 28, 29, 30, 31, 32}

\* data[5:21].decode("ascii").rstrip("\x00").strip()
DecodeVersion(payload) ==
  IF \E i \in 1..Len(payload) : payload[i] > 127
  THEN [kind |-> "raise", exc |-> "UnicodeDecodeError"]
  ELSE [kind |-> "text",
        text |-> LStrip(RStrip(RStrip(payload, {0}), AsciiSpace), AsciiSpace)]

\* _send_stop after its write: the wait for the Stop acknowledgement
StopAcked(pkt, a) ==
  IF a.kind = "raise"
  THEN [raised |-> a.exc, wrote |-> <<pkt>>,
        steps |-> <<"write_stop", "wait_stop_ack">>, now |-> a.now, pos |-> a.pos]
  ELSE [raised |-> "none", wrote |-> <<pkt>>,
        steps |-> <<"write_stop", "wait_stop_ack", "stop_ack">>,
        now |-> a.now, pos |-> a.pos]

\* _send_stop, entered at tick now: the steps taken, and how it ended
SendStopSub(tb, now, pos, fault) ==
  IF fault # "none"
  THEN [raised |-> "SerialException", wrote |-> <<>>, steps |-> <<>>,
        now |-> now, pos |-> pos]
  ELSE StopAcked(BuildSimplePacket(0, OPCODE_STOP),
                 WaitForAck(tb, now, ResetInputBuffer(tb, now, pos), OPCODE_STOP, fault))

\* send_version_command from the decoding of the DATA frame on
VersionDecoded(wrote, steps, frame, version) ==
  IF version.kind = "raise"
  THEN [raised |-> version.exc, wrote |-> wrote, steps |-> steps]
  ELSE [raised |-> "none", wrote |-> wrote, steps |-> steps,
        version |-> version.text,
        resp |-> [type |-> "version_data", counter |-> At(frame, 1),
                  length |-> At(frame, 2), code |-> At(frame, 3),
                  checksum |-> At(frame, 4), data |-> Slice(frame, 5, 21)]]

\* send_version_command after _wait_for_data
VersionData(wrote, steps, data) ==
  IF data.kind = "raise"
  THEN [raised |-> data.exc, wrote |-> wrote, steps |-> steps]
  ELSE VersionDecoded(wrote, Append(steps, "version_data"), data.frame,
                      DecodeVersion(Slice(data.frame, 5, 21)))

\* send_version_command after _wait_for_ack(CMD_VERSION)
VersionAcked(tb, fault, wrote, steps, ack) ==
  IF ack.kind = "raise"
  THEN [raised |-> ack.exc, wrote |-> wrote, steps |-> steps]
  ELSE VersionData(wrote, steps \o <<"version_ack", "wait_version_data">>,
                   WaitForData(tb, ack.now, ack.pos, fault))

\* send_version_command after the Stop sub-exchange: reset the input buffer,
\* write the VERSION packet, wait for its ACK
VersionExchange(tb, now, pos, fault, wrote, steps) ==
  IF fault # "none"
  THEN [raised |-> "SerialException", wrote |-> wrote, steps |-> steps]
  ELSE VersionAcked(tb, fault, Append(wrote, BuildSimplePacket(1, OPCODE_VERSION)),
                    steps \o <<"write_version", "wait_version_ack">>,
                    WaitForAck(tb, now, ResetInputBuffer(tb, now, pos),
                               OPCODE_VERSION, fault))

AbortOnStopTimeout(tb, fault, st) ==
  IF st.raised # "none"
  THEN [raised |-> st.raised, wrote |-> st.wrote, steps |-> st.steps]
  ELSE VersionExchange(tb, st.now + STOP_SETTLE, st.pos, fault, st.wrote, st.steps)

\* send_version_command after _send_stop returned or raised: a TimeoutError
\* of the Stop sub-exchange is caught and the request goes on
AfterStop(tb, fault, st) ==
  IF st.raised = "TimeoutError"
  THEN VersionExchange(tb, st.now, st.pos, fault, st.wrote,
                       Append(st.steps, "stop_timeout"))
  ELSE IF st.raised # "none"
  THEN [raised |-> st.raised, wrote |-> st.wrote, steps |-> st.steps]
  ELSE VersionExchange(tb, st.now + STOP_SETTLE, st.pos, fault, st.wrote, st.steps)

\* the body of the outer try block of send_version_command
VersionBody(tb, fault) == AfterStop(tb, fault, SendStopSub(tb, 0, 1, fault))

VersionUncaught(ctr, b) ==
  IF b.raised # "none"
  THEN Outcome(FALSE, NoneResp, NoneResp, b.raised, b.wrote, ctr, b.steps)
  ELSE Outcome(TRUE, b.resp, b.version, "none", b.wrote, ctr, b.steps)

\* the handlers of send_version_command: "except TimeoutError" and
\* "except Exception" both return (False, None, None)
VersionHandlers(ctr, b) ==
  IF b.raised # "none"
  THEN Outcome(FALSE, NoneResp, NoneResp, "none", b.wrote, ctr, b.steps)
  ELSE Outcome(TRUE, b.resp, b.version, "none", b.wrote, ctr, b.steps)

\* send_version_command; self.counter is not touched
SendVersion(ctr, script, fault) ==
  VersionHandlers(ctr, VersionBody(Timed(script), fault))

(***************************************************************************)
(* State                                                                   *)
(***************************************************************************)
VARIABLES
  counter,   \* HardwareCommandHandler.counter
  rx,        \* the script of device output the next request will meet
  out,       \* the request that returned last, with what it returned
  nreq,      \* number of requests issued so far
  \* scan_and_detect_port
  ports,       \* port_list: the behaviour of every candidate endpoint
  scan_pc,     \* where the scan is: "idle", "loop", "opened", "cleanup", "done"
  scan_i,      \* the candidate of the current iteration of the for loop
  is_open,     \* per candidate: its handle is open
  temp_ports,  \* temp_ports: the opened candidates still to be closed
  detected,    \* detected_port / detected_serial (0: None)
  scan_ret,    \* the returned candidate (0: None)
  tried,       \* candidates whose open was attempted
  port_wrote,  \* per candidate: the frames written to it
  \* SerialStreamReader
  running,                \* self.running
  buf,                    \* self.buf
  data_count,             \* self.data_count
  error_count,            \* self.error_count
  consecutive_errors,     \* self.consecutive_errors
  start_time,             \* self.start_time
  total_packets_expected, \* self.total_packets_expected
  total_packets_lost,     \* self.total_packets_lost
  packet_loss_percent,    \* self.packet_loss_percent, as the fraction num/den
  last_packet_counter,    \* self._last_packet_counter
  total_sequence_lost,    \* self._total_sequence_lost
  packet_loss_warnings,   \* self._packet_loss_warnings
  ser_open,               \* self.ser.is_open
  ser,                    \* self.ser, the transport handle the reader reads:
                          \* the call of serial.Serial that made it
  handler_ser,            \* self.command_handler.ser, likewise
  now,                    \* time.time(), in ticks
  last_op,                \* the reader operation that returned last
  batch,                  \* what the last read_packets call returned
  nreads,                 \* number of read_packets calls so far
  nstarts,                \* number of start() calls so far
  io,                     \* the last read_packets call: its argument, the size
                          \* it asked of self.ser.read, what read did, and the
                          \* buffer as it stood after the chunk was appended
  fail_streak             \* read_packets calls in a row whose read raised

cmdVars == <<counter, rx, out, nreq>>

readerVars == <<running, buf, data_count, error_count, consecutive_errors,
                start_time, total_packets_expected, total_packets_lost,
                packet_loss_percent, last_packet_counter, total_sequence_lost,
                packet_loss_warnings, ser_open, ser, handler_ser, now, last_op,
                batch, nreads, nstarts, io, fail_streak>>

scanVars == <<ports, scan_pc, scan_i, is_open, temp_ports, detected, scan_ret,
              tried, port_wrote>>

vars == <<cmdVars, scanVars, readerVars>>

(***************************************************************************)
(* What the device may send                                                *)
(***************************************************************************)
AckFrame(opcode) == Frame(0, ACK_CODE, Payload0(opcode))

StreamFrame(ctr) == Frame(ctr, ECG_STREAM, Payload0(0))

\* "V1" padded with NUL bytes
VersionAscii == Frame(0, DATA_CODE_VERSION, <<86, 49>> \o Zeros(14))

\* a version payload that is not ASCII
VersionBinary == Frame(0, DATA_CODE_VERSION, <<1, 160>> \o Zeros(14))

\* an acknowledgement of Stop that carries the code 0x20, which the device
\* uses for acknowledgements as well as for samples
AmbiguousAck == Frame(0, ECG_STREAM, Payload0(OPCODE_STOP))

\* bytes that are no frame but hold the start-marker value
Garbage == <<0, START_BYTE, 0>>

Event(dt, data) == [dt |-> dt, data |-> data]

DeviceEvents ==
  {Event(0, AckFrame(op)) : op \in KnownOpcodes}
  \cup {Event(ReplyTicks, AckFrame(OPCODE_VERSION)),
        Event(SilenceTicks, AckFrame(OPCODE_VERSION)),
        Event(0, StreamFrame(5)),
        Event(0, VersionAscii),
        Event(0, VersionBinary),
        Event(0, Garbage),
        Event(0, AmbiguousAck),
        Event(SilenceTicks, <<>>)}

(***************************************************************************)
(* SerialStreamReader: construction                                        *)
(***************************************************************************)
\* self._last_packet_counter = None
NoCounter == -1

ZeroPercent == [num |-> 0, den |-> 1]

\* no read_packets call yet
NoIo ==
  [max_packets |-> 0, len |-> 0, size |-> 0, error |-> "none", held |-> <<>>]

\* __init__ (lines 164-192); the clock starts at 0
InitReader ==
  /\ running = FALSE
  /\ buf = <<>>
  /\ data_count = 0
  /\ error_count = 0
  /\ consecutive_errors = 0
  /\ start_time = 0
  /\ total_packets_expected = 0
  /\ total_packets_lost = 0
  /\ packet_loss_percent = ZeroPercent
  /\ last_packet_counter = NoCounter
  /\ total_sequence_lost = 0
  /\ packet_loss_warnings = 0
  /\ ser_open = TRUE
  /\ ser = "__init__"
  /\ handler_ser = ser
  /\ now = 0
  /\ last_op = "init"
  /\ batch = <<>>
  /\ nreads = 0
  /\ nstarts = 0
  /\ io = NoIo
  /\ fail_streak = 0

(***************************************************************************)
(* Command requests                                                        *)
(***************************************************************************)
NoOut == [cmd |-> "none"]

InitHandler ==
  /\ counter = 0
  /\ rx = <<>>
  /\ out = NoOut
  /\ nreq = 0

\* no scan is running and no candidate is known
InitNoScan ==
  /\ ports = <<>>
  /\ scan_pc = "idle"
  /\ scan_i = 0
  /\ is_open = <<>>
  /\ temp_ports = <<>>
  /\ detected = 0
  /\ scan_ret = 0
  /\ tried = {}
  /\ port_wrote = <<>>

InitCmd == InitHandler /\ InitNoScan /\ InitReader

\* the device sends something more before the next request is issued
DevEmit ==
  /\ out = NoOut
  /\ nreq < MaxRequests
  /\ Len(rx) < MaxEvents
  /\ \E e \in DeviceEvents : rx' = Append(rx, e)
  /\ UNCHANGED <<counter, out, nreq, scanVars, readerVars>>

Request(cmd, opcode) ==
  /\ out = NoOut
  /\ nreq < MaxRequests
  /\ \E fault \in Faults :
       out' = [cmd |-> cmd, opcode |-> opcode, input |-> rx,
               fault |-> fault, before |-> counter]
              @@ SendCommand(opcode, RESPONSE_TIMEOUT, counter, rx, fault)
  /\ counter' = out'.counter
  /\ rx' = <<>>
  /\ nreq' = nreq + 1
  /\ UNCHANGED <<scanVars, readerVars>>

send_start_command == Request("start", OPCODE_START)

send_stop_command == Request("stop", OPCODE_STOP)

send_close_command == Request("close", OPCODE_CLOSE)

send_version_command ==
  /\ out = NoOut
  /\ nreq < MaxRequests
  /\ \E fault \in Faults :
       out' = [cmd |-> "version", opcode |-> OPCODE_VERSION, input |-> rx,
               fault |-> fault, before |-> counter]
              @@ SendVersion(counter, rx, fault)
  /\ counter' = out'.counter
  /\ rx' = <<>>
  /\ nreq' = nreq + 1
  /\ UNCHANGED <<scanVars, readerVars>>

\* the caller takes the returned tuple
TakeResult ==
  /\ out # NoOut
  /\ out' = NoOut
  /\ UNCHANGED <<counter, rx, nreq, scanVars, readerVars>>

NextCmd ==
  \/ DevEmit
  \/ send_start_command
  \/ send_stop_command
  \/ send_close_command
  \/ send_version_command
  \/ TakeResult

SpecCmd == InitCmd /\ [][NextCmd]_vars

(***************************************************************************)
(* The frame builders and the parser on their own                          *)
(***************************************************************************)
\* a 22-byte frame with every header field given
RawFrame(ctr, length, code, checksum, payload) ==
  <<START_BYTE, ctr, length, code, checksum>> \o payload \o <<END_BYTE>>

\* payloads that differ in byte 0 and in the bytes after it
Payloads ==
  {<<p0>> \o [i \in 1..15 |-> fill] :
     p0 \in {0, OPCODE_START, OPCODE_STOP, OPCODE_VERSION, OPCODE_CLOSE, 22, START_BYTE},
     fill \in {0, OPCODE_START}}

WellFormed ==
  {RawFrame(ctr, PACKET_LENGTH, code, 0, payload) :
     ctr \in {0, 1, 63, 255},
     code \in {ACK_CODE, DATA_CODE_VERSION, ECG_STREAM, OPCODE_START, 0, 34, 255},
     payload \in Payloads}
  \cup {RawFrame(5, length, code, 90, Payload0(OPCODE_STOP)) :
          length \in {0, PACKET_LENGTH, FRAME_LEN},
          code \in {ACK_CODE, DATA_CODE_VERSION, ECG_STREAM, 0}}

\* what becomes of a frame that is cut, extended or has a marker damaged
Damaged(f) ==
  {SubSeq(f, 1, 21), SubSeq(f, 2, 22), f \o <<END_BYTE>>, <<START_BYTE>> \o f,
   SubSeq(f, 1, 20) \o <<END_BYTE>>, SubSeq(f, 1, 21) \o <<0, END_BYTE>>,
   [f EXCEPT ![1] = 0], [f EXCEPT ![1] = END_BYTE],
   [f EXCEPT ![22] = 0], [f EXCEPT ![22] = START_BYTE],
   [f EXCEPT ![1] = END_BYTE, ![22] = START_BYTE]}

Malformed ==
  {<<>>, <<START_BYTE>>, <<START_BYTE, END_BYTE>>}
  \cup UNION {Damaged(RawFrame(0, PACKET_LENGTH, code, 0, Payload0(OPCODE_START))) :
               code \in {ACK_CODE, DATA_CODE_VERSION, ECG_STREAM, 0}}

\* the n-th call of _build_command_packet on this handler, n counted from 0
build_command_packet ==
  /\ nreq < MaxEncodes
  /\ \E opcode \in KnownOpcodes :
       out' = [cmd |-> "encode", opcode |-> opcode, n |-> nreq,
               frame |-> BuildCommandPacket(counter, opcode)]
  /\ counter' = NextCounter(counter)
  /\ nreq' = nreq + 1
  /\ UNCHANGED <<rx, scanVars, readerVars>>

\* _build_simple_packet(counter, opcode): the handler's counter is not used
build_simple_packet ==
  /\ \E ctr \in {0, 1, 63, 255, 256}, opcode \in KnownOpcodes :
       out' = [cmd |-> "encode_simple", opcode |-> opcode, n |-> ctr,
               frame |-> BuildSimplePacket(ctr, opcode)]
  /\ UNCHANGED <<counter, nreq, rx, scanVars, readerVars>>

\* _parse_response(packet); it reads nothing of the handler, and is applied
\* to the packets on a handler that has built no frame yet
parse_response ==
  /\ nreq = 0
  /\ out = NoOut
  /\ \E packet \in WellFormed \cup Malformed :
       out' = [cmd |-> "decode", input |-> packet, resp |-> ParseResponse(packet)]
  /\ UNCHANGED <<counter, nreq, rx, scanVars, readerVars>>

NextCodec ==
  \/ build_command_packet
  \/ build_simple_packet
  \/ parse_response

SpecCodec == InitCmd /\ [][NextCodec]_vars

(***************************************************************************)
(* SerialStreamReader.scan_and_detect_port                                 *)
(***************************************************************************)
\* a candidate endpoint: whether serial.Serial(...) opens it, whether
\* reset_input_buffer works on it, what its transport refuses afterwards,
\* and what the device behind it sends once the START command is written
Port(opens, resets, fault, reply) ==
  [opens |-> opens, resets |-> resets, fault |-> fault, reply |-> reply]

PortAck == Port(TRUE, TRUE, "none", <<Event(0, AckFrame(OPCODE_START))>>)

PortKinds ==
  {PortAck,
   \* answers after the per-port timeout
   Port(TRUE, TRUE, "none", <<Event(ReplyTicks, AckFrame(OPCODE_START))>>),
   \* answers nothing
   Port(TRUE, TRUE, "none", <<>>),
   \* answers with a frame that is no Ack of Start
   Port(TRUE, TRUE, "none", <<Event(0, AckFrame(OPCODE_STOP))>>),
   Port(TRUE, TRUE, "none", <<Event(0, StreamFrame(5)), Event(0, AckFrame(OPCODE_START))>>),
   \* cannot be opened
   Port(FALSE, TRUE, "none", <<>>),
   \* opens, but its buffers cannot be reset
   Port(TRUE, FALSE, "none", <<Event(0, AckFrame(OPCODE_START))>>),
   \* opens, but every write fails
   Port(TRUE, TRUE, "write", <<Event(0, AckFrame(OPCODE_START))>>)}

RECURSIVE SeqsUpTo(_, _)
SeqsUpTo(S, n) ==
  IF n = 0 THEN {<<>>}
  ELSE SeqsUpTo(S, n - 1)
       \cup {Append(q, x) : q \in {r \in SeqsUpTo(S, n - 1) : Len(r) = n - 1}, x \in S}

\* list.remove(x)
Remove(q, x) == SelectSeq(q, LAMBDA y : y # x)

InitScan ==
  /\ InitHandler
  /\ ports \in SeqsUpTo(PortKinds, MaxPorts)
  /\ scan_pc = "idle"
  /\ scan_i = 0
  /\ is_open = [p \in 1..Len(ports) |-> FALSE]
  /\ temp_ports = <<>>
  /\ detected = 0
  /\ scan_ret = 0
  /\ tried = {}
  /\ port_wrote = [p \in 1..Len(ports) |-> <<>>]
  /\ InitReader

\* lines 72-89: list the ports; no port at all returns None at once
ScanBegin ==
  /\ scan_pc = "idle"
  /\ scan_pc' = IF ports = <<>> THEN "done" ELSE "loop"
  /\ scan_i' = 1
  /\ UNCHANGED <<ports, is_open, temp_ports, detected, scan_ret, tried, port_wrote,
                 cmdVars, readerVars>>

\* lines 91-102: the next candidate is opened; a candidate that does not open
\* raises before temp_ser is bound, and the loop goes on
ScanOpen ==
  /\ scan_pc = "loop"
  /\ scan_i <= Len(ports)
  /\ tried' = tried \cup {scan_i}
  /\ IF ports[scan_i].opens
     THEN /\ is_open' = [is_open EXCEPT ![scan_i] = TRUE]
          /\ temp_ports' = Append(temp_ports, scan_i)
          /\ scan_pc' = "opened"
          /\ scan_i' = scan_i
     ELSE /\ scan_i' = scan_i + 1
          /\ UNCHANGED <<is_open, temp_ports, scan_pc>>
  /\ UNCHANGED <<ports, detected, scan_ret, port_wrote, cmdVars, readerVars>>

ProbeAnyResponse(r) == r.resp # NoneResp

\* line 116: if success
ProbeSucceeded(r) == r.ok

ScanNoBreak(success) == "loop"

\* lines 116-126: break on success, otherwise the next candidate
ScanNext(success) == IF success THEN "cleanup" ELSE "loop"

LeaveOpen(open, p) == open

\* a scan that closes only the first candidate when it fails
CloseFirstOnly(open, p) == IF p = 1 THEN [open EXCEPT ![p] = FALSE] ELSE open

\* temp_ser.close()
ClosePort(open, p) == [open EXCEPT ![p] = FALSE]

\* lines 104-143 for a candidate whose buffers cannot be reset: the
\* SerialException handler closes it and takes it off temp_ports
ScanResetFails ==
  /\ scan_pc = "opened"
  /\ ~ports[scan_i].resets
  /\ is_open' = ClosePort(is_open, scan_i)
  /\ temp_ports' = Remove(temp_ports, scan_i)
  /\ scan_pc' = "loop"
  /\ scan_i' = scan_i + 1
  /\ UNCHANGED <<ports, detected, scan_ret, tried, port_wrote, cmdVars, readerVars>>

\* lines 104-126: the START command is sent on a fresh handler, in quiet mode
ScanProbe ==
  /\ scan_pc = "opened"
  /\ ports[scan_i].resets
  /\ LET r == SendCommand(OPCODE_START, SCAN_TIMEOUT, 0,
                          ports[scan_i].reply, ports[scan_i].fault)
     IN  /\ port_wrote' = [port_wrote EXCEPT ![scan_i] = r.wrote]
         /\ IF ProbeSucceeded(r)
            THEN /\ detected' = scan_i
                 /\ temp_ports' = Remove(temp_ports, scan_i)
                 /\ is_open' = is_open
            ELSE /\ is_open' = ClosePort(is_open, scan_i)
                 /\ temp_ports' = Remove(temp_ports, scan_i)
                 /\ detected' = detected
         /\ scan_pc' = ScanNext(ProbeSucceeded(r))
  /\ scan_i' = scan_i + 1
  /\ UNCHANGED <<ports, scan_ret, tried, cmdVars, readerVars>>

\* lines 145-162: close what is left on temp_ports, return the detected pair
ScanFinish ==
  /\ scan_pc = "cleanup" \/ (scan_pc = "loop" /\ scan_i > Len(ports))
  /\ is_open' = [p \in 1..Len(ports) |->
                   IF \E k \in 1..Len(temp_ports) : temp_ports[k] = p
                   THEN FALSE ELSE is_open[p]]
  /\ scan_ret' = detected
  /\ scan_pc' = "done"
  /\ UNCHANGED <<ports, scan_i, temp_ports, detected, tried, port_wrote, cmdVars,
                 readerVars>>

NextScan ==
  \/ ScanBegin
  \/ ScanOpen
  \/ ScanResetFails
  \/ ScanProbe
  \/ ScanFinish

SpecScan == InitScan /\ [][NextScan]_vars

(***************************************************************************)
(* SerialStreamReader: start, stop, close, read_packets                    *)
(***************************************************************************)
\* from .packet_parser import PACKET_SIZE
PACKET_SIZE == 22

NoSample == [kind |-> "none"]

\* parse_packet of the packet parser: the external sample decoder.  It is
\* handed a 22-byte candidate that begins with the start marker and ends with
\* the end marker, and yields a structured sample.
ParsePacket(candidate) ==
  IF Len(candidate) = PACKET_SIZE /\ At(candidate, 0) = START_BYTE
     /\ At(candidate, PACKET_SIZE - 1) = END_BYTE
  THEN [kind |-> "sample", counter |-> At(candidate, 1),
        code |-> At(candidate, 3), payload |-> Slice(candidate, 5, 21)]
  ELSE NoSample

\* candidate[1] & 0x3F
CounterOf(candidate) == At(candidate, 1) % 64

\* a gap computed without the wrap of the counter from 63 to 0
LostWithoutWrap(expected_counter, packet_counter) ==
  IF packet_counter > expected_counter
  THEN packet_counter - expected_counter
  ELSE 0

\* lines 450-456: the frames missing between the expected counter and the
\* observed one
LostAfter(expected_counter, packet_counter) ==
  IF packet_counter = expected_counter THEN 0
  ELSE IF packet_counter > expected_counter
  THEN packet_counter - expected_counter
  ELSE (64 - expected_counter) + packet_counter

\* lines 448-449
SequenceLost(last, packet_counter) ==
  IF last = NoCounter THEN 0
  ELSE LostAfter((last + 1) % 64, packet_counter)

\* lines 458-460
CountLoss(st, lost) ==
  IF lost > 0
  THEN [st EXCEPT !.seqlost = @ + lost, !.warnings = @ + 1]
  ELSE st

\* a loop that refuses a frame whose counter is not the expected one
AcceptPacketInSequence(st, candidate, parsed) ==
  IF SequenceLost(st.last, CounterOf(candidate)) > 0
  THEN CountLoss(st, SequenceLost(st.last, CounterOf(candidate)))
  ELSE [st EXCEPT !.data_count = @ + 1,
                  !.last = CounterOf(candidate),
                  !.out = Append(@, parsed)]

\* a loop that puts each new sample at the front of the batch
AcceptPacketInFront(st, candidate, parsed) ==
  [CountLoss(st, SequenceLost(st.last, CounterOf(candidate)))
     EXCEPT !.data_count = @ + 1,
            !.last = CounterOf(candidate),
            !.out = <<parsed>> \o @]

\* lines 439-471, for a candidate the decoder accepted
AcceptPacket(st, candidate, parsed) ==
  [CountLoss(st, SequenceLost(st.last, CounterOf(candidate)))
     EXCEPT !.data_count = @ + 1,
            !.last = CounterOf(candidate),
            !.out = Append(@, parsed)]

\* a loop that counts a span without end marker as a frame
CandidateCounted(st, candidate) ==
  IF At(candidate, PACKET_SIZE - 1) # END_BYTE
  THEN [st EXCEPT !.data_count = @ + 1, !.last = CounterOf(candidate)]
  ELSE IF ParsePacket(candidate) = NoSample THEN st
  ELSE AcceptPacket(st, candidate, ParsePacket(candidate))

\* lines 435-439
Candidate(st, candidate) ==
  IF At(candidate, PACKET_SIZE - 1) # END_BYTE THEN st
  ELSE IF ParsePacket(candidate) = NoSample THEN st
  ELSE AcceptPacket(st, candidate, ParsePacket(candidate))

\* a loop that steps over the start marker alone when the span it opens has
\* no end marker
TakeCandidateOrMarker(st, start_idx) ==
  IF At(RExpand(RTake(RDrop(st.buf, start_idx), PACKET_SIZE)), PACKET_SIZE - 1)
       # END_BYTE
  THEN [st EXCEPT !.buf = RDrop(@, start_idx + 1)]
  ELSE Candidate([st EXCEPT !.buf = RDrop(@, start_idx + PACKET_SIZE)],
                 RExpand(RTake(RDrop(st.buf, start_idx), PACKET_SIZE)))

\* lines 432-433
TakeCandidate(st, start_idx) ==
  Candidate([st EXCEPT !.buf = RDrop(@, start_idx + PACKET_SIZE)],
            RExpand(RTake(RDrop(st.buf, start_idx), PACKET_SIZE)))

\* a buffer that holds no start marker is cleared once it is longer than
\* 150000 bytes
ClearIfFarOver(st) ==
  IF RLen(st.buf) > 150000 THEN [st EXCEPT !.buf = <<>>] ELSE st

\* a buffer that holds no start marker is kept as it is
KeepBuffer(st) == st

\* lines 418-420: a buffer that holds no start marker is cleared once it is
\* longer than 100000 bytes
ClearIfOverflow(st) ==
  IF RLen(st.buf) > 100000 THEN [st EXCEPT !.buf = <<>>] ELSE st

\* the while loop of lines 413-471
RECURSIVE Extract(_, _, _)
\* a loop that throws the whole buffer away when the start marker comes after
\* more than 10000 bytes
ExtractAtClearing(st, start_idx, iteration, max_iterations) ==
  IF start_idx = -1
  THEN ClearIfOverflow(st)
  ELSE IF start_idx > 10000
  THEN Extract([st EXCEPT !.buf = <<>>], iteration, max_iterations)
  ELSE IF RLen(st.buf) - start_idx < PACKET_SIZE
  THEN IF start_idx > 0 THEN [st EXCEPT !.buf = RDrop(@, start_idx)] ELSE st
  ELSE Extract(TakeCandidate(st, start_idx), iteration, max_iterations)

ExtractAt(st, start_idx, iteration, max_iterations) ==
  IF start_idx = -1
  THEN ClearIfOverflow(st)
  ELSE IF start_idx > 10000
  THEN Extract([st EXCEPT !.buf = RDrop(@, start_idx)], iteration, max_iterations)
  ELSE IF RLen(st.buf) - start_idx < PACKET_SIZE
  THEN IF start_idx > 0 THEN [st EXCEPT !.buf = RDrop(@, start_idx)] ELSE st
  ELSE Extract(TakeCandidate(st, start_idx), iteration, max_iterations)

\* a loop that does not keep a buffer shorter than one frame
ExtractDroppingShort(st, iteration, max_iterations) ==
  IF iteration < max_iterations /\ RLen(st.buf) >= PACKET_SIZE
  THEN ExtractAt(st, RFind(st.buf, START_BYTE), iteration + 1, max_iterations)
  ELSE [st EXCEPT !.buf = <<>>]

Extract(st, iteration, max_iterations) ==
  IF iteration < max_iterations /\ RLen(st.buf) >= PACKET_SIZE
  THEN ExtractAt(st, RFind(st.buf, START_BYTE), iteration + 1, max_iterations)
  ELSE st

\* the print of line 462 is executed: the gap is the 1st, the 51st, ... one
PrintsLossWarning(st, lost) == lost > 0 /\ (st.warnings + 1) % 50 = 1

\* the print of line 470 is executed: every 500th frame
PrintsProgress(st) == (st.data_count + 1) % 500 = 0

\* lines 439-462 when the print of line 462 raises: the frame is counted and
\* the gap recorded, the counter of the frame is not stored and the sample is
\* not appended
RaisedAtLossWarning(st, candidate) ==
  [CountLoss(st, SequenceLost(st.last, CounterOf(candidate)))
     EXCEPT !.data_count = @ + 1]

\* lines 439-470 when the print of line 470 raises: the counter of the frame
\* is stored as well
RaisedAtProgress(st, candidate) ==
  [CountLoss(st, SequenceLost(st.last, CounterOf(candidate)))
     EXCEPT !.data_count = @ + 1, !.last = CounterOf(candidate)]

\* the while loop of lines 413-471 on a console that cannot encode the
\* characters of the messages of lines 462 and 470, so that these two
\* prints raise UnicodeEncodeError: whether the loop was left by the
\* exception, and the reader as it was left
RECURSIVE ExtractUnprintable(_, _, _)
CandidateUnprintable(st, candidate, iteration, max_iterations) ==
  IF At(candidate, PACKET_SIZE - 1) # END_BYTE
  THEN ExtractUnprintable(st, iteration, max_iterations)
  ELSE IF ParsePacket(candidate) = NoSample
  THEN ExtractUnprintable(st, iteration, max_iterations)
  ELSE IF PrintsLossWarning(st, SequenceLost(st.last, CounterOf(candidate)))
  THEN [raised |-> TRUE, st |-> RaisedAtLossWarning(st, candidate)]
  ELSE IF PrintsProgress(st)
  THEN [raised |-> TRUE, st |-> RaisedAtProgress(st, candidate)]
  ELSE ExtractUnprintable(AcceptPacket(st, candidate, ParsePacket(candidate)),
                          iteration, max_iterations)

ExtractUnprintableAt(st, start_idx, iteration, max_iterations) ==
  IF start_idx = -1
  THEN [raised |-> FALSE, st |-> ClearIfOverflow(st)]
  ELSE IF start_idx > 10000
  THEN ExtractUnprintable([st EXCEPT !.buf = RDrop(@, start_idx)],
                          iteration, max_iterations)
  ELSE IF RLen(st.buf) - start_idx < PACKET_SIZE
  THEN [raised |-> FALSE,
        st |-> IF start_idx > 0 THEN [st EXCEPT !.buf = RDrop(@, start_idx)]
               ELSE st]
  ELSE CandidateUnprintable(
         [st EXCEPT !.buf = RDrop(@, start_idx + PACKET_SIZE)],
         RExpand(RTake(RDrop(st.buf, start_idx), PACKET_SIZE)),
         iteration, max_iterations)

ExtractUnprintable(st, iteration, max_iterations) ==
  IF iteration < max_iterations /\ RLen(st.buf) >= PACKET_SIZE
  THEN ExtractUnprintableAt(st, RFind(st.buf, START_BYTE), iteration + 1,
                            max_iterations)
  ELSE [raised |-> FALSE, st |-> st]

\* lines 395-399
ReadSize(len) ==
  IF len > 20000 THEN 8192
  ELSE IF len > 50000 THEN 16384
  ELSE 4096

\* line 409
MaxIterations(max_packets) == Max(max_packets * 5, 500)

\* int(500 * elapsed_time), the clock counting ticks of 10 ms
ExpectedPackets(elapsed) == (500 * elapsed) \div TICKS_PER_SEC

Percent(lost, expected) == [num |-> lost * 100, den |-> expected]

\* the reader's fields that read_packets works on
ReaderState ==
  [buf |-> buf, data_count |-> data_count, last |-> last_packet_counter,
   seqlost |-> total_sequence_lost, warnings |-> packet_loss_warnings,
   out |-> <<>>]

\* What a call of self.ser.read may return: the counters of single stream
\* frames, and bursts of several frames in one chunk.
StreamCounters == {0, 1, 3, 63, 66}

\* several stream frames back to back, run-length encoded
RECURSIVE Frames(_)
Frames(ctrs) ==
  IF ctrs = <<>> THEN <<>>
  ELSE RCat(REncode(StreamFrame(Head(ctrs))), Frames(Tail(ctrs)))

Bursts == {<<0, 1, 3, 4>>, <<62, 1>>}

BadEndFrame == SubSeq(StreamFrame(2), 1, FRAME_LEN - 1) \o <<0>>

\* a command response that arrives while the device is streaming
StrayAck == AckFrame(OPCODE_START)

Chunks ==
  {<<>>, REncode(Garbage), REncode(BadEndFrame), REncode(StrayAck)}
  \cup {REncode(StreamFrame(c)) : c \in StreamCounters}
  \cup {Frames(b) : b \in Bursts}

ReadErrors == {"Device not configured", "timeout"}

\* a reader that stops on the error count alone
FatalCountOnly(msg, errors) == errors > 20

\* a reader that gives up at the 20th error
FatalFrom20(msg, errors) == msg = "Device not configured" \/ errors >= 20

\* line 505
Fatal(msg, errors) == msg = "Device not configured" \/ errors > 20

\* start(), lines 267-345
start ==
  /\ nstarts < MaxStarts
  /\ nstarts' = nstarts + 1
  /\ \E reopen_ok \in BOOLEAN, reset_ok \in BOOLEAN :
       IF ~ser_open /\ ~reopen_ok
       THEN \* RuntimeError, lines 305-307
            /\ last_op' = "start_raised"
            /\ UNCHANGED <<running, buf, data_count, start_time,
                           total_packets_expected, total_packets_lost,
                           packet_loss_percent, ser_open, ser>>
       ELSE /\ ser' = IF ser_open THEN ser ELSE "start"
            /\ ser_open' = TRUE
            /\ buf' = IF reset_ok THEN <<>> ELSE buf
            /\ running' = TRUE
            /\ start_time' = now
            /\ data_count' = 0
            /\ total_packets_expected' = 0
            /\ total_packets_lost' = 0
            /\ packet_loss_percent' = ZeroPercent
            /\ last_op' = "start"
  /\ UNCHANGED <<error_count, consecutive_errors, last_packet_counter,
                 total_sequence_lost, packet_loss_warnings, handler_ser, now,
                 batch, nreads, io, fail_streak, cmdVars, scanVars>>

\* a stop() that also throws the buffered bytes away
stop_and_clear ==
  /\ last_op # "stop"
  /\ running' = FALSE
  /\ buf' = <<>>
  /\ last_op' = "stop"
  /\ UNCHANGED <<data_count, error_count, consecutive_errors, start_time,
                 total_packets_expected, total_packets_lost, packet_loss_percent,
                 last_packet_counter, total_sequence_lost, packet_loss_warnings,
                 ser_open, ser, handler_ser, now, batch, nreads, nstarts, io,
                 fail_streak,
                 cmdVars, scanVars>>

\* stop(), lines 347-378
stop ==
  /\ last_op # "stop"
  /\ running' = FALSE
  /\ last_op' = "stop"
  /\ UNCHANGED <<buf, data_count, error_count, consecutive_errors, start_time,
                 total_packets_expected, total_packets_lost, packet_loss_percent,
                 last_packet_counter, total_sequence_lost, packet_loss_warnings,
                 ser_open, ser, handler_ser, now, batch, nreads, nstarts, io,
                 fail_streak,
                 cmdVars, scanVars>>

\* close(), lines 194-231
close ==
  /\ ser_open
  /\ running' = FALSE
  /\ ser_open' = FALSE
  /\ buf' = <<>>
  /\ last_op' = "close"
  /\ UNCHANGED <<data_count, error_count, consecutive_errors, start_time,
                 total_packets_expected, total_packets_lost, packet_loss_percent,
                 last_packet_counter, total_sequence_lost, packet_loss_warnings,
                 ser, handler_ser, now, batch, nreads, nstarts, io, fail_streak,
                 cmdVars, scanVars>>

\* read_packets when self.ser.read raises: lines 493-509
ReadRaised(msg) ==
  /\ error_count' = error_count + 1
  /\ consecutive_errors' = consecutive_errors + 1
  /\ running' = IF Fatal(msg, consecutive_errors + 1) THEN FALSE ELSE running
  /\ batch' = <<>>
  /\ fail_streak' = fail_streak + 1
  /\ UNCHANGED <<buf, data_count, total_packets_expected, total_packets_lost,
                 packet_loss_percent, last_packet_counter, total_sequence_lost,
                 packet_loss_warnings>>

\* lines 485-491
UpdateStatistics(count, expected_packets) ==
  IF count > 0
  THEN /\ total_packets_expected' = expected_packets
       /\ total_packets_lost' = Max(0, expected_packets - count)
       /\ packet_loss_percent' =
            IF expected_packets > 0
            THEN Percent(Max(0, expected_packets - count), expected_packets)
            ELSE packet_loss_percent
  ELSE UNCHANGED <<total_packets_expected, total_packets_lost,
                   packet_loss_percent>>

\* read_packets when nothing raises: lines 401-491 and 509
ReadDone(st) ==
  /\ buf' = st.buf
  /\ data_count' = st.data_count
  /\ last_packet_counter' = st.last
  /\ total_sequence_lost' = st.seqlost
  /\ packet_loss_warnings' = st.warnings
  /\ batch' = st.out
  /\ UpdateStatistics(st.data_count, ExpectedPackets(now - start_time))
  /\ fail_streak' = 0
  /\ UNCHANGED <<error_count, consecutive_errors, running>>

\* the exceptions a print raises on a console that cannot encode a message
ConsoleErrors == {"UnicodeEncodeError"}

\* the reader writes to a console of that kind
Unprintable(errors) == errors \cap ConsoleErrors # {}

\* read_packets when a print inside the loop raises: the loop is left for the
\* handler of lines 493-507, and line 509 returns the samples appended so far
ReadInterrupted(r, msg) ==
  /\ r.raised
  /\ buf' = r.st.buf
  /\ data_count' = r.st.data_count
  /\ last_packet_counter' = r.st.last
  /\ total_sequence_lost' = r.st.seqlost
  /\ packet_loss_warnings' = r.st.warnings
  /\ batch' = r.st.out
  /\ error_count' = error_count + 1
  /\ consecutive_errors' = consecutive_errors + 1
  /\ running' = IF Fatal(msg, consecutive_errors + 1) THEN FALSE ELSE running
  /\ fail_streak' = fail_streak + 1
  /\ UNCHANGED <<total_packets_expected, total_packets_lost,
                 packet_loss_percent>>

\* read_packets when nothing raises, on a console of either kind
ReadCompleted(r, errors) ==
  /\ Unprintable(errors) => ~r.raised
  /\ ReadDone(r.st)

\* n bytes, none of them a start marker
Noise(n) == IF n > 0 THEN <<Run(0, n)>> ELSE <<>>

\* a device that streams: the chunks of Chunks that a read of the given size
\* can return
StreamOffered(size, len) == {chunk \in Chunks : RLen(chunk) <= size}

\* a line that carries noise: self.ser.read(size) returns nothing, a full
\* chunk of noise, or the noise that fills the buffer up to 100000 bytes or
\* to one byte more
NoiseOffered(size, len) ==
  {<<>>, Noise(size),
   Noise(Min(size, Max(0, 100000 - len))),
   Noise(Min(size, Max(0, 100001 - len)))}

\* the first k bytes of a frame, and the bytes after them
FrameHead(f, k) == SubSeq(f, 1, k)

FrameRest(f, k) == SubSeq(f, k + 1, Len(f))

\* where a read may cut a frame in two
SplitPoints == {1, 10, 21}

\* the counters of the frames of a fragmented stream
FragmentCounters == {0, 2}

\* a line whose reads end anywhere: self.ser.read(size) returns nothing, a
\* full chunk of noise, a frame, the head of a frame, the rest of a frame, a
\* frame followed by the head of the next, or the rest of a frame followed
\* by the next frame
FragmentsOffered(size, len) ==
  {<<>>, Noise(size)}
  \cup {REncode(StreamFrame(c)) : c \in FragmentCounters}
  \cup {REncode(FrameHead(StreamFrame(c), k)) :
          c \in FragmentCounters, k \in SplitPoints}
  \cup {REncode(FrameRest(StreamFrame(c), k)) :
          c \in FragmentCounters, k \in SplitPoints}
  \cup {RCat(REncode(StreamFrame(c)), REncode(FrameHead(StreamFrame(d), k))) :
          c \in FragmentCounters, d \in FragmentCounters, k \in SplitPoints}
  \cup {RCat(REncode(FrameRest(StreamFrame(c), k)), REncode(StreamFrame(d))) :
          c \in FragmentCounters, d \in FragmentCounters, k \in SplitPoints}

\* a line that carries garbage before a frame: self.ser.read(size) returns a
\* full chunk of noise, the noise that brings the buffer to 10000 bytes or to
\* one byte more, a frame, or the head of a frame
GarbageOffered(size, len) ==
  {Noise(size),
   Noise(Min(size, Max(0, 10000 - len))),
   Noise(Min(size, Max(0, 10001 - len))),
   REncode(StreamFrame(0)),
   REncode(FrameHead(StreamFrame(0), 10))}

\* what self.ser.read(size) may return on the given transport
Offered(transport, size, len) ==
  IF transport = "noise" THEN NoiseOffered(size, len)
  ELSE IF transport = "fragments" THEN FragmentsOffered(size, len)
  ELSE IF transport = "garbage" THEN GarbageOffered(size, len)
  ELSE StreamOffered(size, len)

\* read_packets(max_packets), lines 380-509: a reader that makes at most
\* limit calls, against a transport whose read returns one of the chunks of
\* Offered(transport, size, len(self.buf)) or raises one of errors
ReadPackets(limit, transport, errors, sizes) ==
  /\ nreads < limit
  /\ nreads' = nreads + 1
  /\ last_op' = "read_packets"
  /\ \E max_packets \in sizes :
       IF ~running
       THEN /\ batch' = <<>>
            /\ io' = [NoIo EXCEPT !.max_packets = max_packets]
            /\ UNCHANGED <<running, buf, data_count, error_count,
                           consecutive_errors, total_packets_expected,
                           total_packets_lost, packet_loss_percent,
                           last_packet_counter, total_sequence_lost,
                           packet_loss_warnings, fail_streak>>
       ELSE \/ \E msg \in errors \ ConsoleErrors :
               /\ ReadRaised(msg)
               /\ io' = [max_packets |-> max_packets, len |-> RLen(buf),
                         size |-> ReadSize(RLen(buf)),
                         error |-> msg, held |-> buf]
            \/ \E chunk \in Offered(transport, ReadSize(RLen(buf)), RLen(buf)) :
               /\ IF Unprintable(errors)
                  THEN ReadCompleted(
                         ExtractUnprintable(
                           [ReaderState EXCEPT !.buf = RCat(@, chunk)],
                           0, MaxIterations(max_packets)), errors)
                  ELSE ReadDone(Extract([ReaderState EXCEPT !.buf = RCat(@, chunk)],
                                        0, MaxIterations(max_packets)))
               /\ io' = [max_packets |-> max_packets, len |-> RLen(buf),
                         size |-> ReadSize(RLen(buf)),
                         error |-> "none", held |-> RCat(buf, chunk)]
            \/ \E msg \in errors \cap ConsoleErrors,
                  chunk \in Offered(transport, ReadSize(RLen(buf)), RLen(buf)) :
               /\ ReadInterrupted(
                    ExtractUnprintable([ReaderState EXCEPT !.buf = RCat(@, chunk)],
                                       0, MaxIterations(max_packets)), msg)
               /\ io' = [max_packets |-> max_packets, len |-> RLen(buf),
                         size |-> ReadSize(RLen(buf)),
                         error |-> msg, held |-> RCat(buf, chunk)]
  /\ UNCHANGED <<start_time, ser_open, ser, handler_ser, now, nstarts, cmdVars,
                 scanVars>>

read_packets == ReadPackets(MaxReads, "stream", ReadErrors, {1, 100})

\* time passes
Tick ==
  /\ now < MaxTime
  /\ now' = now + 1
  /\ UNCHANGED <<running, buf, data_count, error_count, consecutive_errors,
                 start_time, total_packets_expected, total_packets_lost,
                 packet_loss_percent, last_packet_counter, total_sequence_lost,
                 packet_loss_warnings, ser_open, ser, handler_ser, last_op,
                 batch, nreads,
                 nstarts, io, fail_streak, cmdVars, scanVars>>

InitReaderOnly == InitHandler /\ InitNoScan /\ InitReader

NextReader ==
  \/ start
  \/ stop
  \/ close
  \/ read_packets
  \/ Tick

SpecReader == InitReaderOnly /\ [][NextReader]_vars

(***************************************************************************)
(* SerialStreamReader polled for a long time against a transport that      *)
(* delivers noise without a start marker, or fails                         *)
(***************************************************************************)
\* OSError of a read that timed out or was interrupted
TransientErrors == {"timeout"}

read_packets_polled ==
  ReadPackets(MaxSoakReads, "noise", TransientErrors, {100})

NextSoak ==
  \/ start
  \/ stop
  \/ read_packets_polled

SpecSoak == InitReaderOnly /\ [][NextSoak]_vars

(***************************************************************************)
(* SerialStreamReader polled against a transport whose reads cut frames    *)
(* anywhere and that also delivers runs of noise                           *)
(***************************************************************************)
read_packets_fragmented ==
  ReadPackets(MaxResyncReads, "fragments", TransientErrors, {100})

NextResync ==
  \/ start
  \/ stop
  \/ read_packets_fragmented

SpecResync == InitReaderOnly /\ [][NextResync]_vars

(***************************************************************************)
(* SerialStreamReader polled against a transport that delivers a long run  *)
(* of garbage and then a frame                                             *)
(***************************************************************************)
\* the reads of this transport do not fail
NoErrors == {}

read_packets_after_garbage ==
  ReadPackets(MaxGarbageReads, "garbage", NoErrors, {100})

NextGarbage ==
  \/ start
  \/ stop
  \/ read_packets_after_garbage

SpecGarbage == InitReaderOnly /\ [][NextGarbage]_vars

(***************************************************************************)
(* SerialStreamReader on a console that cannot encode the messages of      *)
(* lines 462 and 470                                                       *)
(***************************************************************************)
read_packets_unprintable ==
  ReadPackets(MaxConsoleReads, "stream", ConsoleErrors, {100})

NextConsole ==
  \/ start
  \/ stop
  \/ read_packets_unprintable

SpecConsole == InitReaderOnly /\ [][NextConsole]_vars

(***************************************************************************)
(* Claims about command requests (checked under SpecCmd)                   *)
(***************************************************************************)
RECURSIVE AllBytesFrom(_, _)
AllBytesFrom(script, i) ==
  IF i > Len(script) THEN <<>> ELSE script[i].data \o AllBytesFrom(script, i + 1)

\* every byte of a script, whenever it arrives
AllBytes(script) == AllBytesFrom(script, 1)

IsAckFor(f, opcode) ==
  ParseResponse(f).type = "ack" /\ GetOpcode(ParseResponse(f)) = opcode

IsStreamSample(f) == ParseResponse(f).type = "data"

IsVersionData(f) == ParseResponse(f).type = "version_data"

\* some 22-byte window of the bytes is an acknowledgement of opcode
HasAckWindow(bytes, opcode) ==
  \E i \in 0..(Len(bytes) - 22) : IsAckFor(Slice(bytes, i, i + 22), opcode)

HasVersionDataWindow(bytes) ==
  \E i \in 0..(Len(bytes) - 22) : IsVersionData(Slice(bytes, i, i + 22))

\* the script is StreamSample frames followed by one acknowledgement of
\* opcode, all of it arriving before the timeout
StreamsThenAck(script, opcode, timeout) ==
  /\ Len(script) >= 1
  /\ ArrivalTime(script, Len(script)) < timeout
  /\ IsAckFor(script[Len(script)].data, opcode)
  /\ \A i \in 1..(Len(script) - 1) : IsStreamSample(script[i].data)

SimpleCmds == {"start", "stop", "close"}

\* no response that matches the request is among the bytes the device sent
NoMatchingResponse(o) ==
  IF o.cmd \in SimpleCmds
  THEN ~HasAckWindow(BytesBefore(Timed(o.input), RESPONSE_TIMEOUT), o.opcode)
  ELSE \/ ~HasAckWindow(AllBytes(o.input), OPCODE_VERSION)
       \/ ~HasVersionDataWindow(AllBytes(o.input))

\* what the caller can observe of a request
Observed(o) == [ok |-> o.ok, resp |-> o.resp, escaped |-> o.escaped]

\* what the caller observes when the same request simply times out
ObservedOnTimeout(o) ==
  IF o.cmd \in SimpleCmds
  THEN Observed(SendCommand(o.opcode, RESPONSE_TIMEOUT, o.before, <<>>, "none"))
  ELSE Observed(SendVersion(o.before, <<>>, "none"))

\* C1 (as claimed): a Start, Stop or Close request that meets StreamSample
\* frames followed, before the timeout, by a well-formed Ack echoing its
\* opcode discards the StreamSample frames and returns success with that Ack.
C1_StreamThenAckSucceeds ==
  (/\ out.cmd \in SimpleCmds
   /\ out.fault = "none"
   /\ StreamsThenAck(out.input, out.opcode, RESPONSE_TIMEOUT))
  => (/\ out.ok
      /\ out.resp = ParseResponse(out.input[Len(out.input)].data))

\* C2: when no matching response arrives before the timeout, every command
\* request returns a failure value (success False; no response at all when
\* the device sent nothing), and no exception leaves a request whatever the
\* transport delivers.
C2_TimeoutIsFailureValue ==
  out # NoOut =>
    /\ out.escaped = "none"
    /\ NoMatchingResponse(out) => ~out.ok
    /\ AllBytes(out.input) = <<>> => (~out.ok /\ out.resp = NoneResp)

C2_Witness ==
  /\ out.cmd = "version"
  /\ out.fault = "none"
  /\ Len(out.input) > 1
  /\ HasAckWindow(AllBytes(out.input), OPCODE_VERSION)
  /\ NoMatchingResponse(out)
  /\ ~out.ok

\* C3 (as claimed): a transport fault during a command request reaches the
\* caller as something distinguishable from the outcome of a plain timeout.
C3_FaultDistinguishable ==
  (out # NoOut /\ out.fault # "none") => Observed(out) # ObservedOnTimeout(out)

\* C3 (amended): a transport fault during a command request is caught inside
\* the request; the caller gets the failure value of a plain timeout and no
\* exception.
C3_FaultReportedAsTimeout ==
  (out # NoOut /\ out.fault # "none") =>
    /\ out.escaped = "none"
    /\ ~out.ok
    /\ out.resp = NoneResp
    /\ Observed(out) = ObservedOnTimeout(out)

C3_Witness ==
  /\ out.cmd = "start"
  /\ out.fault = "read"
  /\ out.input = <<Event(0, AckFrame(OPCODE_START))>>
  /\ ~out.ok
  /\ Len(out.wrote) = 1

\* C4: a VersionQuery request never writes its VersionQuery frame without a
\* Stop frame written before it, and when the Stop acknowledgement cannot
\* arrive (the wait for it times out) the request still writes the
\* VersionQuery frame and waits for its acknowledgement.
C4_StopThenVersionBestEffort ==
  out.cmd = "version" =>
    /\ Len(out.wrote) <= 2
    /\ Len(out.wrote) >= 1 => At(out.wrote[1], 3) = OPCODE_STOP
    /\ Len(out.wrote) = 2 => At(out.wrote[2], 3) = OPCODE_VERSION
    /\ (out.fault = "none" /\ ~HasAckWindow(AllBytes(out.input), OPCODE_STOP))
         => (/\ Len(out.wrote) = 2
             /\ \E k \in 1..Len(out.steps) : out.steps[k] = "wait_version_ack")

C4_Witness ==
  /\ out.cmd = "version"
  /\ out.fault = "none"
  /\ ~HasAckWindow(AllBytes(out.input), OPCODE_STOP)
  /\ Len(out.wrote) = 2
  /\ out.ok

\* C5 (as claimed): a VersionQuery request succeeds exactly when, after its
\* frame is written, an Ack echoing 0x14 and after it a VersionData frame
\* are received.
C5_SucceedsIffAckThenData ==
  out.cmd = "version" =>
    (out.ok <=> \E k \in 1..Len(out.steps) : out.steps[k] = "version_data")

\* the frames a request wrote carry the counters before, before + 1, ...,
\* and the handler's counter has advanced by their number
CarriesSessionCounter(o) ==
  /\ \A k \in 1..Len(o.wrote) : At(o.wrote[k], 1) = (o.before + k - 1) % 64
  /\ o.counter = (o.before + Len(o.wrote)) % 64

\* C18 (as claimed): every command frame a handler writes, the VersionQuery
\* frame and the Stop frame before it included, carries the handler's
\* current sequence counter, and the counter advances by one (mod 64) for
\* each frame written.
C18_EveryFrameCarriesSessionCounter ==
  (out # NoOut /\ out.fault = "none") => CarriesSessionCounter(out)

(***************************************************************************)
(* Claims about the port scan (checked under SpecScan)                     *)
(***************************************************************************)
\* the candidate can be opened and probed, and the first thing its device
\* sends, within the per-port timeout, is a well-formed Ack of Start
Acknowledges(p) ==
  /\ p.opens
  /\ p.resets
  /\ p.fault = "none"
  /\ p.reply # <<>>
  /\ 1 + p.reply[1].dt < SCAN_TIMEOUT
  /\ p.reply[1].data = AckFrame(OPCODE_START)

Ackers == {k \in 1..Len(ports) : Acknowledges(ports[k])}

OpenHandles == {k \in 1..Len(ports) : is_open[k]}

\* C6: when exactly one candidate k acknowledges Start, the scan returns k
\* with its handle open and every other candidate's handle is closed.
C6_OnlyAckerReturnedOpen ==
  scan_pc = "done" =>
    \A k \in 1..Len(ports) : Ackers = {k} => (scan_ret = k /\ OpenHandles = {k})

C6_Witness ==
  /\ scan_pc = "done"
  /\ Len(ports) = MaxPorts
  /\ Ackers = {MaxPorts}
  /\ \A k \in 1..Len(ports) : ports[k].opens /\ ports[k].resets
  /\ scan_ret = MaxPorts
  /\ tried = 1..MaxPorts

\* C7: when no candidate acknowledges Start, the scan tries every candidate,
\* returns None and leaves no handle open.
C7_NoAckerReturnsNone ==
  (scan_pc = "done" /\ Ackers = {}) =>
    /\ scan_ret = 0
    /\ tried = 1..Len(ports)
    /\ OpenHandles = {}

C7_Witness ==
  /\ scan_pc = "done"
  /\ Len(ports) = MaxPorts
  /\ Ackers = {}
  /\ ~ports[1].opens
  /\ \E k \in 1..Len(ports) : port_wrote[k] # <<>> /\ ports[k].reply # <<>>
  /\ \E k \in 1..Len(ports) : ~ports[k].resets
  /\ scan_ret = 0

\* C8: when several candidates would acknowledge Start, the scan returns the
\* first of them and never opens or writes to a candidate after it.
C8_FirstAckerShortCircuits ==
  (scan_pc = "done" /\ Ackers # {}) =>
    LET k == CHOOSE a \in Ackers : \A b \in Ackers : a <= b
    IN  /\ scan_ret = k
        /\ \A j \in 1..Len(ports) :
              j > k => (j \notin tried /\ port_wrote[j] = <<>> /\ ~is_open[j])

C8_Witness ==
  /\ scan_pc = "done"
  /\ Cardinality(Ackers) >= 2
  /\ 1 \notin Ackers
  /\ scan_ret = 2
  /\ is_open[2]
  /\ tried = {1, 2}

(***************************************************************************)
(* Claims about the stream reader (checked under SpecReader)               *)
(***************************************************************************)
\* the 6-bit sequence counters of the frames of a batch
RECURSIVE Counters(_)
Counters(samples) ==
  IF samples = <<>> THEN <<>>
  ELSE <<Head(samples).counter % 64>> \o Counters(Tail(samples))

\* the loss the rule of the specification assigns to counter c after p
GapAfter(p, c) ==
  IF c = (p + 1) % 64 THEN 0 ELSE ((c + 64) - (p + 1)) % 64

\* the rule applied along a run of accepted counters that follows counter p
RECURSIVE GapSum(_, _)
GapSum(p, ctrs) ==
  IF ctrs = <<>> THEN 0
  ELSE (IF p = NoCounter THEN 0 ELSE GapAfter(p, Head(ctrs)))
       + GapSum(Head(ctrs), Tail(ctrs))

\* C9: for consecutive accepted stream frames with 6-bit counters p then c,
\* the sequence-loss total is unchanged when c = (p+1) mod 64 and otherwise
\* grows by exactly (c - (p+1)) mod 64: every call of read_packets adds to
\* the total the sum of that rule over the frames it accepted, starting from
\* the last counter accepted before the call; counters 0,1,3,4 accepted by a
\* fresh reader leave a total of 1.
C9_SequenceLossRule ==
  /\ [][nreads' = nreads + 1 =>
         total_sequence_lost' =
           total_sequence_lost + GapSum(last_packet_counter, Counters(batch'))]_vars
  /\ []((nreads = 1 /\ Counters(batch) = <<0, 1, 3, 4>>)
          => total_sequence_lost = 1)

C9_Witness ==
  /\ nreads = 1
  /\ Counters(batch) = <<0, 1, 3, 4>>
  /\ last_packet_counter = 4
  /\ total_sequence_lost = 1
  /\ packet_loss_warnings = 1

\* C10 (as claimed): immediately after start() the accepted-frame count, the
\* sequence-gap loss total and the throughput-loss figures are all zero, and
\* no counter of an earlier session is kept for the first frame of the new
\* session to be compared with.
C10_StartBeginsFreshSession ==
  last_op = "start" =>
    /\ data_count = 0
    /\ total_packets_expected = 0
    /\ total_packets_lost = 0
    /\ packet_loss_percent = ZeroPercent
    /\ total_sequence_lost = 0
    /\ last_packet_counter = NoCounter

\* the frame a sample of a batch was decoded from
FrameOf(sample) == Frame(sample.counter, sample.code, sample.payload)

\* C14 (as claimed): the batch a call read_packets(max_packets) returns holds
\* at most max_packets frames, whatever the amount of data buffered.
C14_BatchWithinMaxFrames ==
  last_op = "read_packets" => Len(batch) <= io.max_packets

\* C15 (as claimed): read_packets returns only frames that classify as
\* StreamSample; a well-formed Ack, VersionData or Unknown frame in the stream
\* is consumed but never appended to the batch.
C15_OnlyStreamSamplesReturned ==
  \A i \in 1..Len(batch) : IsStreamSample(FrameOf(batch[i]))

(***************************************************************************)
(* Claims about the reader polled for a long time (checked under SpecSoak) *)
(***************************************************************************)
\* the last call of read_packets was one whose transport read raised
LastReadFailed == last_op = "read_packets" /\ io.error # "none"

\* C11 (as claimed): after 20 consecutive read_packets calls whose transport
\* read failed with a non-fatal error, the running flag is false.
C11_StoppedAfter20Failures ==
  (LastReadFailed /\ fail_streak >= 20) => ~running

\* C11 (amended): a read_packets call whose transport read fails with a
\* non-fatal error returns an empty batch and no exception, and leaves the
\* running flag false exactly when the consecutive-error counter, the failure
\* counted, exceeds 20: after 21 failed calls in a row it is false.
C11_StoppedWhenCounterExceeds20 ==
  (LastReadFailed /\ io.error \in TransientErrors) =>
    /\ batch = <<>>
    /\ running <=> consecutive_errors <= 20
    /\ consecutive_errors >= fail_streak
    /\ fail_streak >= 21 => ~running

C11_Witness ==
  /\ LastReadFailed
  /\ nstarts = 1
  /\ fail_streak = 21
  /\ consecutive_errors = 21
  /\ error_count = 21
  /\ ~running

\* C12: a read_packets call in which the buffer, the chunk read appended,
\* holds more than 100000 bytes and no start marker empties the buffer,
\* raises nothing, and leaves the running flag and both error counters as
\* they were.
C12_OverflowWithoutMarkerClears ==
  [][(/\ nreads' = nreads + 1
      /\ io'.error = "none"
      /\ RLen(io'.held) > 100000
      /\ RFind(io'.held, START_BYTE) = -1)
     => (/\ buf' = <<>>
         /\ batch' = <<>>
         /\ last_op' = "read_packets"
         /\ UNCHANGED <<running, error_count, consecutive_errors>>)]_vars

C12_Witness ==
  /\ last_op = "read_packets"
  /\ io.error = "none"
  /\ RLen(io.held) = 100001
  /\ RFind(io.held, START_BYTE) = -1
  /\ buf = <<>>
  /\ running

\* the read size the specification assigns to a retained buffer of L bytes
ClaimedReadSize(L) ==
  IF L <= 20000 THEN 4096 ELSE IF L <= 50000 THEN 8192 ELSE 16384

\* C13 (as claimed): the number of bytes a read_packets call asks of the
\* transport is 4096 when the retained buffer holds at most 20000 bytes, 8192
\* when it holds more than 20000 and at most 50000, 16384 when it holds more.
C13_ReadSizeFollowsBacklog ==
  (last_op = "read_packets" /\ io.size > 0) => io.size = ClaimedReadSize(io.len)

(***************************************************************************)
(* Claims about the frame builders and the parser (checked under SpecCodec)*)
(***************************************************************************)
Encoded == out.cmd \in {"encode", "encode_simple"}

\* C16: for each of Start, Stop, VersionQuery and Close, parsing the frame
\* built for it yields a valid frame whose code is the command's opcode,
\* whose length field is 0x11, whose payload is 16 zero bytes and whose
\* markers are 0xE8 and 0x8E.
C16_EncodeDecodeRoundTrip ==
  Encoded =>
    /\ Len(out.frame) = 22
    /\ At(out.frame, 0) = 232
    /\ At(out.frame, 21) = 142
    /\ ParseResponse(out.frame).type # "invalid"
    /\ ParseResponse(out.frame).code = out.opcode
    /\ ParseResponse(out.frame).length = 17
    /\ ParseResponse(out.frame).data = Zeros(16)

C16_Witness ==
  /\ out.cmd = "encode"
  /\ out.opcode = OPCODE_VERSION
  /\ out.n = 3
  /\ ParseResponse(out.frame).code = 20
  /\ ParseResponse(out.frame).counter = 3

\* C17: on a fresh handler the n-th frame built (n = 0, 1, 2, ...) carries
\* the sequence byte n mod 64, so the 65th carries 0 again, and the
\* handler's counter stays within 0..63.
C17_CounterIsCallIndexMod64 ==
  /\ counter \in 0..63
  /\ counter = nreq % 64
  /\ out.cmd = "encode" => At(out.frame, 1) = out.n % 64

C17_Witness ==
  /\ out.cmd = "encode"
  /\ out.n = 64
  /\ nreq = 65
  /\ At(out.frame, 1) = 0
  /\ counter = 1

\* the byte sequence is no valid frame
IsMalformed(b) ==
  Len(b) # 22 \/ b[1] # 232 \/ b[Len(b)] # 142

\* C19: the parser returns Invalid for every byte sequence whose length is
\* not 22, or whose first byte is not 0xE8, or whose last byte is not 0x8E,
\* and that result carries no counter, code or payload; for every other byte
\* sequence it returns a frame that is not Invalid.
C19_InvalidIffMalformed ==
  out.cmd = "decode" =>
    IF IsMalformed(out.input)
    THEN /\ out.resp.type = "invalid"
         /\ DOMAIN out.resp \cap {"counter", "code", "data", "length",
                                   "checksum", "opcode"} = {}
    ELSE /\ out.resp.type # "invalid"
         /\ {"counter", "code", "data"} \subseteq DOMAIN out.resp

C19_Witness ==
  /\ out.cmd = "decode"
  /\ Len(out.input) = 22
  /\ out.input[1] = 232
  /\ out.input[22] = 232
  /\ out.input[4] = 33
  /\ out.resp.type = "invalid"

\* the classification the specification gives a valid frame
ClaimedClass(code, p0) ==
  IF code = 33 THEN [type |-> "ack", opcode |-> p0]
  ELSE IF code = 36 THEN [type |-> "version_data"]
  ELSE IF code = 32
  THEN IF p0 \in {16, 17, 20, 21}
       THEN [type |-> "ack", opcode |-> p0]
       ELSE [type |-> "data"]
  ELSE [type |-> "unknown"]

\* the classification of a parsed response
ClassOf(resp) ==
  IF resp.type = "ack" THEN [type |-> "ack", opcode |-> resp.opcode]
  ELSE [type |-> resp.type]

\* C20: the class of a valid frame is a function of its code byte and of
\* payload byte 0 alone: 0x21 is Ack of payload byte 0, 0x24 is VersionData,
\* 0x20 is Ack of payload byte 0 when that is 0x10, 0x11, 0x14 or 0x15 and
\* StreamSample otherwise, any other code is Unknown; the sequence counter
\* and the other bytes do not matter.
C20_ClassFromCodeAndPayload0 ==
  (out.cmd = "decode" /\ ~IsMalformed(out.input)) =>
    ClassOf(out.resp) = ClaimedClass(out.input[4], out.input[6])

C20_Witness ==
  /\ out.cmd = "decode"
  /\ ~IsMalformed(out.input)
  /\ out.input[2] = 63
  /\ out.input[4] = 32
  /\ out.input[6] = 20
  /\ out.input[7] = 16
  /\ out.resp.type = "ack"
  /\ out.resp.opcode = 20

(***************************************************************************)
(* Claims about the version payload (checked under SpecCmd)                *)
(***************************************************************************)
\* the request got as far as receiving the VersionData frame
ReceivedVersionData(o) ==
  o.cmd = "version" /\ \E k \in 1..Len(o.steps) : o.steps[k] = "version_data"

\* C21 (as claimed): a VersionQuery that received its Ack and the VersionData
\* frame returns success with a text rendering of the payload, whatever the
\* 16 payload bytes are; a payload byte above 0x7F does not make it fail.
C21_PayloadNeverFailsRequest ==
  ReceivedVersionData(out) =>
    /\ out.ok
    /\ out.escaped = "none"
    /\ out.version # NoneResp

(***************************************************************************)
(* Claims about the reader's life cycle (checked under SpecReader)         *)
(***************************************************************************)
\* close() has torn down the transport handle
Closed == ~ser_open

\* C22 (as claimed): Closed is terminal; once close() has torn down the
\* transport handle no later start(), stop() or read_packets() opens a
\* handle or makes the reader Running again.
C22_ClosedIsTerminal ==
  [][Closed => (Closed' /\ ~running')]_vars

(***************************************************************************)
(* Claims about the loss statistics (checked under SpecReader)             *)
(***************************************************************************)
\* a step that is one call of read_packets
ReadStep == nreads' = nreads + 1

\* max(0, expected - accepted) at the return of the call
ClaimedThroughputLoss ==
  Max(0, ExpectedPackets(now' - start_time') - data_count')

\* C23 (as claimed): after every read_packets call that returns while the
\* ingest is running, the reported throughput loss is max(0, expected -
\* accepted), expected being 500 times the seconds since start() truncated
\* to an integer; also when no frame has been accepted yet.
C23_ThroughputLossIsExpectedMinusAccepted ==
  [][(ReadStep /\ running /\ running' /\ io'.error = "none")
       => total_packets_lost' = ClaimedThroughputLoss]_vars

(***************************************************************************)
(* Claims about read failures and the running flag (checked under          *)
(* SpecReader)                                                             *)
(***************************************************************************)
\* the ingest state a call of read_packets may modify
IngestState ==
  <<buf, data_count, error_count, consecutive_errors, total_packets_expected,
    total_packets_lost, packet_loss_percent, last_packet_counter,
    total_sequence_lost, packet_loss_warnings, ser_open, start_time>>

\* the call returned at its first statement: nothing was read
ReturnedWithoutReading ==
  /\ batch' = <<>>
  /\ io'.size = 0 /\ io'.held = <<>> /\ io'.error = "none"
  /\ UNCHANGED IngestState

\* C24: a read failure with the device-unplugged signature clears the running
\* flag at its first occurrence and the call returns an empty batch; from
\* then on every read_packets call returns an empty batch without reading,
\* and only start() makes the reader running again.
C24_UnpluggedStopsAtOnce ==
  [][/\ (ReadStep /\ running /\ io'.error = "Device not configured")
          => (~running' /\ batch' = <<>>
              /\ consecutive_errors' = consecutive_errors + 1)
     /\ (ReadStep /\ ~running) => (~running' /\ ReturnedWithoutReading)
     /\ (~running /\ running') => nstarts' = nstarts + 1]_vars

\* the first read failure of a running reader was an unplugged device: the
\* call has returned an empty batch and cleared the running flag
C24_Witness ==
  /\ last_op = "read_packets"
  /\ io.error = "Device not configured"
  /\ consecutive_errors = 1
  /\ fail_streak = 1
  /\ ~running
  /\ batch = <<>>

(***************************************************************************)
(* Claims about frames cut by the reads (checked under SpecResync)         *)
(***************************************************************************)
\* the well-formed stream frames of the fragmented transport
SplitFrames == {StreamFrame(c) : c \in FragmentCounters}

\* the samples of a batch that were decoded from frame f
Returned(samples, f) ==
  Cardinality({i \in 1..Len(samples) : samples[i] = ParsePacket(f)})

\* the bytes from offset lo on
BytesFrom(r, lo) == RExpand(RDrop(r, lo))

\* the call ended with the first k bytes of f, k < 22, at the end of what had
\* arrived, after whole frames only
EndsWithHead(held, f, k) ==
  /\ RLen(held) >= k
  /\ (RLen(held) - k) % PACKET_SIZE = 0
  /\ BytesFrom(held, RLen(held) - k) = FrameHead(f, k)
  /\ \A j \in 0..((RLen(held) - k) \div PACKET_SIZE - 1) :
       RExpand(RTake(RDrop(held, j * PACKET_SIZE), PACKET_SIZE)) \in SplitFrames

\* C25: a well-formed stream frame cut by the end of a read is kept as the
\* tail of the buffer and not returned by that call; the call in which its
\* remaining bytes arrive returns it once and removes it from the buffer, so
\* it is neither lost nor returned again.
C25_SplitFrameReturnedOnce ==
  [][\A f \in SplitFrames, k \in SplitPoints :
       /\ (ReadStep /\ running /\ io'.error = "none"
           /\ EndsWithHead(io'.held, f, k))
            => /\ buf' = REncode(FrameHead(f, k))
               /\ Len(batch') = (RLen(io'.held) - k) \div PACKET_SIZE
       /\ (ReadStep /\ running /\ io'.error = "none"
           /\ buf = REncode(FrameHead(f, k))
           /\ RLen(io'.held) >= PACKET_SIZE
           /\ RExpand(RTake(io'.held, PACKET_SIZE)) = f)
            => /\ batch' # <<>>
               /\ batch'[1] = ParsePacket(f)
               /\ RLen(buf') <= RLen(io'.held) - PACKET_SIZE
               /\ data_count' = data_count + Len(batch')
       /\ (ReadStep /\ buf = REncode(FrameHead(f, k)) /\ io'.error # "none")
            => buf' = buf /\ batch' = <<>>]_vars

\* the head of frame 2 was left by one call, ten bytes of it, and the call
\* in which the other twelve arrived has returned the frame
C25_Witness ==
  /\ last_op = "read_packets"
  /\ running
  /\ io.len = 10
  /\ io.held = REncode(StreamFrame(2))
  /\ batch = <<ParsePacket(StreamFrame(2))>>
  /\ buf = <<>>

(***************************************************************************)
(* Claims about garbage before a frame (checked under SpecGarbage)         *)
(***************************************************************************)
\* the first start marker of what the call held comes after more than 10000
\* bytes
LongGarbagePrefix(held) == RFind(held, START_BYTE) > 10000

\* what the call held from its first start marker on
FromMarker(held) == RDrop(held, RFind(held, START_BYTE))

\* C26: when more than 10000 bytes precede the first start marker, the call
\* removes exactly those bytes and keeps the marker and what follows it: a
\* frame that begins at the marker is extracted and returned by the same
\* call, and a marker followed by fewer than 22 bytes is what the buffer
\* holds at the return.
C26_GarbagePrefixDroppedFrameExtracted ==
  [][(ReadStep /\ running /\ io'.error = "none" /\ LongGarbagePrefix(io'.held))
       => IF RLen(FromMarker(io'.held)) >= PACKET_SIZE
          THEN /\ batch' # <<>>
               /\ batch'[1] = ParsePacket(RExpand(RTake(FromMarker(io'.held),
                                                        PACKET_SIZE)))
               /\ data_count' = data_count + Len(batch')
               /\ RLen(buf') <= RLen(FromMarker(io'.held)) - PACKET_SIZE
          ELSE /\ batch' = <<>>
               /\ buf' = FromMarker(io'.held)]_vars

\* 10001 bytes of garbage and then a frame: the call has returned the frame
C26_Witness ==
  /\ last_op = "read_packets"
  /\ io.len = 10001
  /\ io.held = RCat(Noise(10001), REncode(StreamFrame(0)))
  /\ batch = <<ParsePacket(StreamFrame(0))>>
  /\ buf = <<>>

(***************************************************************************)
(* Claims about single frames (checked under SpecReader)                   *)
(***************************************************************************)
\* what the call held is one 22-byte span that begins with a start marker
\* and has no end marker at offset 21
HeldSpanWithoutEnd ==
  /\ RLen(io'.held) = PACKET_SIZE
  /\ At(RExpand(io'.held), 0) = START_BYTE
  /\ At(RExpand(io'.held), PACKET_SIZE - 1) # END_BYTE

\* C27: a 22-byte span that begins at a start marker and has no end marker
\* at offset 21 is dropped silently: the batch is empty, the span is gone
\* from the buffer, and the accepted count, the last-seen counter, the
\* sequence-loss total, the error counters and the running flag are as
\* before.
C27_BadEndMarkerDroppedSilently ==
  [][(ReadStep /\ running /\ io'.error = "none" /\ HeldSpanWithoutEnd)
       => /\ batch' = <<>>
          /\ buf' = <<>>
          /\ UNCHANGED <<data_count, last_packet_counter, total_sequence_lost,
                         packet_loss_warnings, error_count, consecutive_errors,
                         running>>]_vars

\* a span without end marker arrived after a frame had been accepted, and
\* the call that met it has returned
C27_Witness ==
  /\ last_op = "read_packets"
  /\ running
  /\ io.error = "none"
  /\ io.held = REncode(BadEndFrame)
  /\ batch = <<>>
  /\ data_count = 1
  /\ last_packet_counter = 63

(***************************************************************************)
(* Claims about the order of delivery (checked under SpecResync)           *)
(***************************************************************************)
\* the 22 bytes of r at frame position j, counted from 1
FrameAt(r, j) == RExpand(RTake(RDrop(r, (j - 1) * PACKET_SIZE), PACKET_SIZE))

\* r is n well-formed stream frames followed by fewer than 22 bytes that
\* hold no whole frame
FramesThenTail(r, n) ==
  /\ n * PACKET_SIZE <= RLen(r)
  /\ RLen(r) < (n + 1) * PACKET_SIZE
  /\ \A j \in 1..n : FrameAt(r, j) \in SplitFrames

\* the samples of the first n frames of r, in the order of their bytes
InArrivalOrder(r, n) == [j \in 1..n |-> ParsePacket(FrameAt(r, j))]

\* C28: frames are delivered in arrival order.  The bytes a call works on
\* are the tail kept from earlier calls followed by the bytes just read; the
\* batch lists the frames of these bytes from the oldest to the newest, so
\* that the batches of successive calls, put end to end, list the frames in
\* the order in which their bytes arrived.
C28_DeliveredInArrivalOrder ==
  [][\A n \in 0..3 :
       (ReadStep /\ running /\ io'.error = "none"
        /\ RTake(io'.held, RLen(buf)) = buf
        /\ FramesThenTail(io'.held, n))
         => /\ batch' = InArrivalOrder(io'.held, n)
            /\ buf' = RDrop(io'.held, n * PACKET_SIZE)]_vars

\* frame 0 was cut after ten bytes by one call; the next call received its
\* other twelve bytes followed by frame 2 and has returned frame 0, then
\* frame 2
C28_Witness ==
  /\ last_op = "read_packets"
  /\ io.len = 10
  /\ io.held = RCat(REncode(StreamFrame(0)), REncode(StreamFrame(2)))
  /\ batch = <<ParsePacket(StreamFrame(0)), ParsePacket(StreamFrame(2))>>

(***************************************************************************)
(* Claims about sequence gaps (checked under SpecReader)                   *)
(***************************************************************************)
\* r is n whole stream frames and nothing else
StreamFramesOnly(r, n) ==
  /\ RLen(r) = n * PACKET_SIZE
  /\ \A j \in 1..n : \E c \in StreamCounters : FrameAt(r, j) = StreamFrame(c)

\* the counter of the frame at position j of r, and of the frame before it
CounterAt(r, j) == At(FrameAt(r, j), 1) % 64

CounterBefore(r, j) == IF j = 1 THEN last_packet_counter ELSE CounterAt(r, j - 1)

\* the frame at position j does not carry the counter expected after its
\* predecessor
GapAt(r, j) ==
  /\ CounterBefore(r, j) # NoCounter
  /\ CounterAt(r, j) # (CounterBefore(r, j) + 1) % 64

\* C29: a sequence gap is never fatal.  When the frames of a call include one
\* whose counter is not the expected one, every frame is still accepted and
\* returned, the last frame's counter becomes the last-seen counter, the gap
\* is added to the sequence-loss total, and the running flag and the error
\* counters are as before.
C29_GapIsNeverFatal ==
  [][\A n \in 1..4 :
       (ReadStep /\ running /\ io'.error = "none"
        /\ StreamFramesOnly(io'.held, n)
        /\ \E j \in 1..n : GapAt(io'.held, j))
         => /\ batch' = InArrivalOrder(io'.held, n)
            /\ data_count' = data_count + n
            /\ last_packet_counter' = CounterAt(io'.held, n)
            /\ total_sequence_lost' > total_sequence_lost
            /\ running'
            /\ UNCHANGED <<error_count, consecutive_errors>>]_vars

\* frame 1 arrived right after frame 62: both were returned and two missing
\* frames were counted
C29_Witness ==
  /\ last_op = "read_packets"
  /\ running
  /\ io.held = Frames(<<62, 1>>)
  /\ batch = <<ParsePacket(StreamFrame(62)), ParsePacket(StreamFrame(1))>>
  /\ last_packet_counter = 1
  /\ total_sequence_lost >= 2

(***************************************************************************)
(* Claims about stop() (checked under SpecReader)                          *)
(***************************************************************************)
\* a step that is one call of stop()
StopStep == last_op' = "stop" /\ last_op # "stop"

\* C30: stop() clears the running flag and leaves the buffer, the accepted
\* count, the loss totals, the error counters and the transport handle as
\* they are; while the flag is clear a call of read_packets returns an empty
\* batch, reads nothing and modifies nothing.
C30_StopOnlyClearsRunning ==
  [][/\ StopStep => (~running' /\ UNCHANGED IngestState)
     /\ (ReadStep /\ ~running)
          => (batch' = <<>> /\ io'.size = 0 /\ ~running'
              /\ UNCHANGED IngestState)]_vars

\* a reader that had accepted four frames was stopped, and a later call of
\* read_packets has returned the empty batch without reading
C30_Witness ==
  /\ last_op = "read_packets"
  /\ ~running
  /\ ser_open
  /\ error_count = 0
  /\ io.size = 0
  /\ batch = <<>>
  /\ data_count = 4

(***************************************************************************)
(* Claims about the extraction loop (checked under SpecReader)             *)
(***************************************************************************)
\* the reader as the last call of read_packets found it after its read
AfterRead == [ReaderState EXCEPT !.buf = io.held, !.out = <<>>]

\* one pass through the body of the while loop
OneIteration(st) == Extract(st, 0, 1)

\* the loop is entered with st and the pass does not end it: it removes a
\* garbage prefix or takes a candidate
Continues(st) ==
  /\ RLen(st.buf) >= PACKET_SIZE
  /\ RFind(st.buf, START_BYTE) # -1
  /\ \/ RFind(st.buf, START_BYTE) > 10000
     \/ RLen(st.buf) - RFind(st.buf, START_BYTE) >= PACKET_SIZE

\* the passes the loop makes from st on when nothing caps them, the pass that
\* ends it included
RECURSIVE Passes(_)
Passes(st) ==
  IF RLen(st.buf) < PACKET_SIZE THEN 0
  ELSE IF Continues(st) THEN 1 + Passes(OneIteration(st))
  ELSE 1

\* every pass from st on that does not end the loop removes 22 bytes or more
RECURSIVE EachPassRemovesAFrame(_)
EachPassRemovesAFrame(st) ==
  Continues(st) =>
    /\ RLen(OneIteration(st).buf) <= RLen(st.buf) - PACKET_SIZE
    /\ EachPassRemovesAFrame(OneIteration(st))

\* a call of read_packets has got past its read
HasExtracted == last_op = "read_packets" /\ io.error = "none" /\ io.size > 0

\* C31: a call of read_packets makes at most max(5 * max_packets, 500) passes
\* through the extraction loop, and every pass that does not end the loop
\* removes at least 22 bytes from the buffer.
C31_LoopBoundedAndShrinking ==
  HasExtracted =>
    /\ EachPassRemovesAFrame(AfterRead)
    /\ Passes(AfterRead) <= MaxIterations(io.max_packets)
    /\ buf = Extract(AfterRead, 0, Passes(AfterRead)).buf

\* a call that made four passes, each of which took one frame of a burst
C31_Witness ==
  /\ HasExtracted
  /\ Passes(AfterRead) = 4
  /\ Len(batch) = 4

(***************************************************************************)
(* Claims about the waits of the version request (checked under SpecCmd)   *)
(***************************************************************************)
\* the first bytes the device sends are an acknowledgement of opcode, and
\* they arrive inside the overall budget of the wait that starts at tick 0
AckInsideBudget(script, opcode) ==
  \E i \in 1..Len(script) :
    /\ IsAckFor(script[i].data, opcode)
    /\ ArrivalTime(script, i) < WAIT_TIMEOUT
    /\ \A j \in 1..(i - 1) : script[j].data = <<>>

HasStep(o, step) == \E k \in 1..Len(o.steps) : o.steps[k] = step

\* C32 (as claimed): the acknowledgement wait of the version request and of
\* its Stop sub-exchange goes on until its overall budget of 3 s is spent; a
\* read slice of 0.5 s without a complete frame does not end it, so an Ack
\* that arrives after a silent slice and inside the budget is accepted.
C32_AckAcceptedAfterSilentSlice ==
  (out.cmd = "version" /\ out.fault = "none"
   /\ AckInsideBudget(out.input, OPCODE_STOP))
    => HasStep(out, "stop_ack")

(***************************************************************************)
(* Claims about the backlog (checked under SpecSoak)                       *)
(***************************************************************************)
\* C33: bounded backlog.  Starting from an empty buffer, whatever the reads
\* deliver, the buffer a call of read_packets leaves behind holds at most
\* 100000 bytes.
C33_BacklogAtMost100000 == RLen(buf) <= 100000

\* a call of read_packets has returned with a buffer of exactly 100000 bytes
C33_Witness ==
  /\ last_op = "read_packets"
  /\ io.error = "none"
  /\ RLen(io.held) = 100000
  /\ RLen(buf) = 100000

(***************************************************************************)
(* Claims about the consecutive-error counter (checked under SpecSoak)     *)
(***************************************************************************)
\* C34 (as claimed): the consecutive-error counter counts uninterrupted
\* failures only.  It is zero after a call of read_packets that completed
\* without a transport exception and after start(), so a reader that the
\* threshold has stopped has met more than 20 failures in a row.
C34_CounterCountsUninterruptedFailures ==
  /\ (HasExtracted /\ running) => consecutive_errors = 0
  /\ last_op = "start" => consecutive_errors = 0
  /\ (LastReadFailed /\ ~running) => fail_streak > 20

(***************************************************************************)
(* Claims about the accepted-frame count (checked under SpecConsole)       *)
(***************************************************************************)
\* a step that is one call of start() that returned
StartStep == nstarts' = nstarts + 1 /\ last_op' = "start"

\* C35 (as claimed): conservation of accepted frames.  start() sets the
\* accepted-frame count to zero, every call of read_packets adds to it the
\* number of frames it returns, also a call in which an exception was caught
\* part-way through the extraction, and nothing else changes it; so at every
\* return the count is the number of frames returned since the last start().
C35_AcceptedEqualsReturned ==
  [][/\ StartStep => data_count' = 0
     /\ ReadStep => data_count' = data_count + Len(batch')
     /\ (~StartStep /\ ~ReadStep) => data_count' = data_count]_vars

(***************************************************************************)
(* Claims about resynchronization (checked under SpecReader)               *)
(***************************************************************************)
\* the bytes the last call worked on are g bytes that hold no frame,
\* followed by the well-formed stream frame f
GarbageThenFrame(g, f) ==
  /\ RLen(io.held) = g + PACKET_SIZE
  /\ RExpand(RDrop(io.held, g)) = f
  /\ f \in {StreamFrame(c) : c \in StreamCounters}

\* f has been returned, or its bytes are still in the buffer
ReturnedOrKept(f) ==
  \/ Returned(batch, f) >= 1
  \/ /\ RLen(buf) >= PACKET_SIZE
     /\ RExpand(RDrop(buf, RLen(buf) - PACKET_SIZE)) = f

\* C36 (as claimed): resynchronization never loses a well-formed frame to
\* the garbage before it.  A complete well-formed stream frame that follows
\* non-frame bytes, bytes equal to the start marker among them, is returned
\* by the call that works on it or is still in the buffer for a later call.
C36_FrameSurvivesGarbage ==
  \A g \in 1..Len(Garbage) :
    \A c \in StreamCounters :
      (HasExtracted /\ GarbageThenFrame(g, StreamFrame(c)))
        => ReturnedOrKept(StreamFrame(c))

(***************************************************************************)
(* Claims about the response reader (checked under SpecCmd)                *)
(***************************************************************************)
\* the device sent non-frame bytes that hold the start-marker value and then
\* a well-formed acknowledgement of opcode, all of it before the timeout
GarbageThenAck(script, opcode) ==
  /\ Len(script) = 2
  /\ script[1].data = Garbage
  /\ IsAckFor(script[2].data, opcode)
  /\ ArrivalTime(script, 2) < RESPONSE_TIMEOUT

\* C37 (as claimed): a Start, Stop or Close request succeeds when a
\* well-formed matching Ack arrives completely before the timeout, also when
\* non-frame bytes that hold the value 0xE8 precede it; the response reader
\* advances past a start marker whose 22-byte span does not end in 0x8E.
C37_AckAfterStrayMarkerSucceeds ==
  (out.cmd \in SimpleCmds /\ out.fault = "none"
   /\ GarbageThenAck(out.input, out.opcode))
    => out.ok

(***************************************************************************)
(* Claims about the acknowledgement filter (checked under SpecCmd)         *)
(***************************************************************************)
\* the first thing the device sends, at once, is a frame that _parse_response
\* classifies as an acknowledgement of opcode
ClassifiedAckFirst(script, opcode) ==
  /\ Len(script) >= 1
  /\ script[1].dt = 0
  /\ IsAckFor(script[1].data, opcode)

\* C38 (as claimed): the acknowledgement wait of the version request agrees
\* with the classification of _parse_response: a frame classified as an Ack
\* that echoes the awaited opcode is accepted as the acknowledgement, also a
\* frame with the code 0x20; likewise in the Stop sub-exchange.
C38_WaitAgreesWithClassification ==
  (out.cmd = "version" /\ out.fault = "none"
   /\ ClassifiedAckFirst(out.input, OPCODE_STOP))
    => HasStep(out, "stop_ack")

(***************************************************************************)
(* Claims about the reader's command handler (checked under SpecReader)    *)
(***************************************************************************)
\* C39 (as claimed): the command handler owned by the reader operates on the
\* transport handle that read_packets reads from, after any sequence of
\* start(), stop() and close(), also after a start() that reopened the port.
C39_HandlerSharesReadersTransport == handler_ser = ser

(***************************************************************************)
(* Claims about the handles of a port scan (checked under SpecScan)        *)
(***************************************************************************)
\* C40: at every point of a port scan at most one handle opened by the scan
\* is open: a candidate that does not acknowledge is closed before the next
\* candidate is opened.
C40_AtMostOneHandleOpen == Cardinality(OpenHandles) <= 1

\* the third candidate has just been opened, after two candidates that were
\* opened and probed and did not acknowledge
C40_Witness ==
  /\ scan_pc = "opened"
  /\ scan_i = 3
  /\ \A k \in 1..2 : ports[k].opens /\ ports[k].resets /\ port_wrote[k] # <<>>
  /\ Ackers \cap {1, 2} = {}
  /\ OpenHandles = {3}

=============================================================================
